---- MODULE Spec2Model ----
(***************************************************************************)
(* en-ka: English -> katakana converter.                                   *)
(*                                                                         *)
(* Model of the index builder (DictionaryLoader), the search engine        *)
(* (SearchEngine), the result processor (ResultProcessor), the character   *)
(* utilities (JapaneseConverter) and the converter facade                  *)
(* (EnglishToKatakanaConverter).                                           *)
(*                                                                         *)
(* Text is modelled as a sequence of UTF-16 code units (naturals), so that *)
(* toLowerCase, trim, split, the regular expressions and the code-point    *)
(* arithmetic of the source are computed, not assumed.                     *)
(* A JavaScript Map is modelled as a sequence of [key, val] pairs in       *)
(* insertion order, an array as a sequence.                                *)
(***************************************************************************)
EXTENDS Integers, Sequences, FiniteSets, TLC

VARIABLES
    corpus,        \* the entries parsed from the dictionary file
    indexedDict,   \* DictionaryLoader.indexedDict (built = FALSE models null)
    call,          \* the API call that has just run: operation and arguments
    scored,        \* ScoredResult[] produced by the search engine / sorted by the processor
    records,       \* ConversionResult[] returned by processScoredResults / convert
    suggestions,   \* string[] returned by getSuggestions
    romajiParts,   \* katakanaToRomaji: what each loop iteration appended to romaji
    disk,          \* the data directory: the dictionary file, the zip and the extracted file
    heap,          \* the IndexedDictionary objects built so far; a reference is a position
    converter,     \* the references held by the loader and by the converter (0 models null)
    tasks,         \* the asynchronous calls in flight on the converter
    effects,       \* counters of the downloads, file reads and index builds performed
    cli            \* the run of the CLI main command

vars ==
    <<corpus, indexedDict, call, scored, records, suggestions, romajiParts,
      disk, heap, converter, tasks, effects, cli>>

\* the part of the state the asynchronous calls and the CLI work on
runVars == <<disk, heap, converter, tasks, effects, cli>>

\* the part of the state the direct calls of the search engine work on
searchVars == <<corpus, call, scored, records, suggestions, romajiParts>>

----------------------------------------------------------------------------
(* Bounds of the model                                                     *)

MaxEntries == 2      \* entries in the dictionary file
MaxCands == 2        \* length of the candidate array given to processScoredResults
MaxKanaLen == 3      \* length of the strings given to katakanaToRomaji
MaxLimit == 2        \* largest maxResults argument tried (besides the default 10)

----------------------------------------------------------------------------
(* Generic sequence helpers                                                *)

Range(s) == {s[i] : i \in 1..Len(s)}

RECURSIVE Flatten(_)
Flatten(ss) == IF ss = <<>> THEN <<>> ELSE Head(ss) \o Flatten(Tail(ss))

\* Array.prototype.slice(0, n)
Slice(s, n) == IF n <= 0 THEN <<>> ELSE SubSeq(s, 1, IF n < Len(s) THEN n ELSE Len(s))

\* String comparison by UTF-16 code units (the default of Array.prototype.sort)
RECURSIVE StrLess(_, _)
StrLess(a, b) ==
    IF b = <<>> THEN FALSE
    ELSE IF a = <<>> THEN TRUE
    ELSE IF Head(a) # Head(b) THEN Head(a) < Head(b)
    ELSE StrLess(Tail(a), Tail(b))

\* String.prototype.startsWith
startsWith(s, p) == Len(p) <= Len(s) /\ SubSeq(s, 1, Len(p)) = p

----------------------------------------------------------------------------
(* Characters                                                              *)

\* WhiteSpace and LineTerminator code units: what \s matches and trim() strips
WhiteSpace == {9, 10, 11, 12, 13, 32, 160, 5760, 8232, 8233, 8239, 8287, 12288, 65279}
              \cup (8192..8202)

\* String.prototype.toLowerCase on the code units the model uses (A-Z)
LowerChar(c) == IF c >= 65 /\ c <= 90 THEN c + 32 ELSE c

toLowerCase(s) == [i \in 1..Len(s) |-> LowerChar(s[i])]

RECURSIVE TrimStart(_)
TrimStart(s) == IF s # <<>> /\ Head(s) \in WhiteSpace THEN TrimStart(Tail(s)) ELSE s

RECURSIVE TrimEnd(_)
TrimEnd(s) ==
    IF s # <<>> /\ s[Len(s)] \in WhiteSpace THEN TrimEnd(SubSeq(s, 1, Len(s) - 1)) ELSE s

\* String.prototype.trim
trim(s) == TrimEnd(TrimStart(s))

\* /[\s,;()[\]]+/ : the separators of the gloss tokenizer
WordSeparators == WhiteSpace \cup {44, 59, 40, 41, 91, 93}

\* /[\s,;]+/ : the separators inside a parenthesized description
DescSeparators == WhiteSpace \cup {44, 59}

\* String.prototype.split(/[seps]+/): the pieces between maximal separator runs,
\* including the empty piece before a leading and after a trailing run
RECURSIVE SplitFrom(_, _, _, _)
SplitFrom(s, seps, cur, inRun) ==
    IF s = <<>> THEN <<cur>>
    ELSE IF Head(s) \in seps
         THEN IF inRun THEN SplitFrom(Tail(s), seps, cur, TRUE)
              ELSE <<cur>> \o SplitFrom(Tail(s), seps, <<>>, TRUE)
         ELSE SplitFrom(Tail(s), seps, Append(cur, Head(s)), FALSE)

split(s, seps) == SplitFrom(s, seps, <<>>, FALSE)

----------------------------------------------------------------------------
(* JavaScript Map, in insertion order                                      *)

MapHas(m, k) == \E i \in 1..Len(m) : m[i].key = k

MapIndex(m, k) == CHOOSE i \in 1..Len(m) : m[i].key = k

\* Map.prototype.get(k) || []
MapGet(m, k) == IF MapHas(m, k) THEN m[MapIndex(m, k)].val ELSE <<>>

\* Map.prototype.set: a present key keeps its position, a new key goes last
MapSet(m, k, v) ==
    IF MapHas(m, k)
    THEN [m EXCEPT ![MapIndex(m, k)] = [key |-> k, val |-> v]]
    ELSE Append(m, [key |-> k, val |-> v])

\* Array.from(map.keys()) and Array.from(map.values())
MapKeys(m) == [i \in 1..Len(m) |-> m[i].key]
MapValues(m) == [i \in 1..Len(m) |-> m[i].val]

----------------------------------------------------------------------------
(* DictionaryLoader: the index builder                                     *)

commonWords ==
    { <<116, 104, 101>>, <<97, 110, 100>>, <<111, 114>>,
      <<98, 117, 116>>, <<102, 111, 114>>, <<119, 105, 116, 104>>,
      <<119, 105, 116, 104, 111, 117, 116>>, <<102, 114, 111, 109>>, <<116, 111>>,
      <<97, 116>>, <<105, 110>>, <<111, 110>>,
      <<98, 121>>, <<111, 102>>, <<97>>,
      <<97, 110>>, <<98, 101>>, <<105, 115>>,
      <<97, 114, 101>>, <<119, 97, 115>>, <<119, 101, 114, 101>>,
      <<98, 101, 105, 110, 103>>, <<98, 101, 101, 110>>, <<104, 97, 118, 101>>,
      <<104, 97, 115>>, <<104, 97, 100>>, <<100, 111>>,
      <<100, 111, 101, 115>>, <<100, 105, 100>>, <<119, 105, 108, 108>>,
      <<119, 111, 117, 108, 100>>, <<99, 111, 117, 108, 100>>, <<115, 104, 111, 117, 108, 100>>,
      <<109, 97, 121>>, <<109, 105, 103, 104, 116>>, <<99, 97, 110>>,
      <<109, 117, 115, 116>>, <<115, 104, 97, 108, 108>>, <<116, 104, 105, 115>>,
      <<116, 104, 97, 116>>, <<116, 104, 101, 115, 101>>, <<116, 104, 111, 115, 101>> }

\* variant: no word is a stop word
isCommonWord_never(word) == FALSE

isCommonWord(word) == toLowerCase(word) \in commonWords

\* the character class of the isKatakana regular expression: U+30A0-U+30FF, U+3099, U+309A
KatakanaClass == (12448..12543) \cup {12441, 12442}

isKatakana(text) == text # <<>> /\ \A i \in 1..Len(text) : text[i] \in KatakanaClass

\* words.filter(word => word.length > 2 && !this.isCommonWord(word))
RECURSIVE FilterClean(_)
FilterClean(words) ==
    IF words = <<>> THEN <<>>
    ELSE IF Len(Head(words)) > 2 /\ ~isCommonWord(Head(words))
         THEN <<Head(words)>> \o FilterClean(Tail(words))
         ELSE FilterClean(Tail(words))

\* words.filter(w => w.length > 0)
RECURSIVE FilterNonEmpty(_)
FilterNonEmpty(words) ==
    IF words = <<>> THEN <<>>
    ELSE IF Len(Head(words)) > 0 THEN <<Head(words)>> \o FilterNonEmpty(Tail(words))
    ELSE FilterNonEmpty(Tail(words))

\* loader.ts:86-87
cleanWordsOf(englishText) == FilterClean(FilterNonEmpty(split(englishText, WordSeparators)))

\* englishText.match(/\(([^)]+)\)/): the first "(" followed by a non-empty run
\* without ")" and then a ")"; group 1 is that run
RunLength(s) ==
    IF \E i \in 1..Len(s) : s[i] = 41
    THEN (CHOOSE i \in 1..Len(s) : s[i] = 41 /\ \A j \in 1..(i - 1) : s[j] # 41) - 1
    ELSE Len(s)

RECURSIVE descriptionMatch(_)
descriptionMatch(s) ==
    IF s = <<>> THEN [found |-> FALSE, group |-> <<>>]
    ELSE IF Head(s) = 40 /\ RunLength(Tail(s)) >= 1 /\ RunLength(Tail(s)) < Len(Tail(s))
         THEN [found |-> TRUE, group |-> SubSeq(Tail(s), 1, RunLength(Tail(s)))]
         ELSE descriptionMatch(Tail(s))

\* variant: the words of the description are not filtered by length and stop words
descWordsOf_unfiltered(englishText) ==
    IF descriptionMatch(englishText).found
    THEN FilterNonEmpty(split(descriptionMatch(englishText).group, DescSeparators))
    ELSE <<>>

\* loader.ts:131-132
descWordsOf(englishText) ==
    IF descriptionMatch(englishText).found
    THEN FilterClean(split(descriptionMatch(englishText).group, DescSeparators))
    ELSE <<>>

ExactScore == 100
PrimaryScore == 80
CompoundScore == 60
DescriptionScore == 20

ScoredResult(entry, score, matchType, matchedTerm) ==
    [entry |-> entry, score |-> score, matchType |-> matchType, matchedTerm |-> matchedTerm]

\* variant: the list of a key is replaced instead of extended
addToScoredIndex_overwrite(index, key, scoredResult) == MapSet(index, key, <<scoredResult>>)

addToScoredIndex(index, key, scoredResult) ==
    MapSet(index, key, Append(MapGet(index, key), scoredResult))

\* variant: every token of a compound gloss is scored as the first one
compoundResult_allPrimary(entry, cleanWords, i) ==
    ScoredResult(entry, PrimaryScore, "primary", cleanWords[i])

\* loader.ts:106-123, the candidate of token i of a compound gloss
compoundResult(entry, cleanWords, i) ==
    IF i = 1
    THEN ScoredResult(entry, PrimaryScore, "primary", cleanWords[i])
    ELSE ScoredResult(entry, CompoundScore, "compound", cleanWords[i])

\* the for loop of loader.ts:103-125 from position i on
RECURSIVE addCompound(_, _, _, _)
addCompound(compoundWords, cleanWords, i, entry) ==
    IF i > Len(cleanWords) THEN compoundWords
    ELSE addCompound(
           addToScoredIndex(compoundWords, cleanWords[i], compoundResult(entry, cleanWords, i)),
           cleanWords, i + 1, entry)

\* the for loop of loader.ts:134-142
RECURSIVE addDescription(_, _, _)
addDescription(descriptionOnly, descWords, entry) ==
    IF descWords = <<>> THEN descriptionOnly
    ELSE addDescription(
           addToScoredIndex(descriptionOnly, Head(descWords),
               ScoredResult(entry, DescriptionScore, "description", Head(descWords))),
           Tail(descWords), entry)

\* variant: the first token of every gloss also goes to the exact tier
indexWithScoring_exactToo(englishText, entry, idx) ==
    LET cleanWords == cleanWordsOf(englishText)
        withExact ==
            IF Len(cleanWords) >= 1
            THEN [idx EXCEPT !.exactMatches =
                     addToScoredIndex(@, cleanWords[1],
                         ScoredResult(entry, ExactScore, "exact", cleanWords[1]))]
            ELSE idx
        main ==
            IF Len(cleanWords) > 1
            THEN [withExact EXCEPT !.compoundWords = addCompound(@, cleanWords, 1, entry)]
            ELSE withExact
    IN  [main EXCEPT !.descriptionOnly = addDescription(@, descWordsOf(englishText), entry)]

\* idx is the record of the maps under construction
indexWithScoring(englishText, entry, idx) ==
    LET cleanWords == cleanWordsOf(englishText)
        main ==
            IF Len(cleanWords) = 1
            THEN [idx EXCEPT !.exactMatches =
                     addToScoredIndex(@, cleanWords[1],
                         ScoredResult(entry, ExactScore, "exact", cleanWords[1]))]
            ELSE IF Len(cleanWords) > 1
            THEN [idx EXCEPT !.compoundWords = addCompound(@, cleanWords, 1, entry)]
            ELSE idx
    IN  [main EXCEPT !.descriptionOnly = addDescription(@, descWordsOf(englishText), entry)]

\* the glosses of an entry in the order of the two nested loops of loader.ts:59-60
allGlosses(entry) == Flatten(entry.sense)

RECURSIVE indexGlosses(_, _, _)
indexGlosses(glosses, entry, idx) ==
    IF glosses = <<>> THEN idx
    ELSE indexGlosses(Tail(glosses), entry,
            IF Head(glosses).lang = "eng" \/ Head(glosses).lang = ""
            THEN indexWithScoring(trim(toLowerCase(Head(glosses).text)), entry, idx)
            ELSE idx)

katakanaOf(entry) == {entry.kana[i].text : i \in {j \in 1..Len(entry.kana) : isKatakana(entry.kana[j].text)}}

EmptyIndex ==
    [built |-> FALSE, entries |-> <<>>, exactMatches |-> <<>>, compoundWords |-> <<>>,
     descriptionOnly |-> <<>>, katakanaWords |-> {}]

RECURSIVE buildFrom(_, _)
buildFrom(entries, idx) ==
    IF entries = <<>> THEN idx
    ELSE buildFrom(Tail(entries),
            indexGlosses(allGlosses(Head(entries)), Head(entries),
                [idx EXCEPT !.entries = MapSet(@, Head(entries).id, Head(entries)),
                            !.katakanaWords = @ \cup katakanaOf(Head(entries))]))

\* variant: the entries map is left empty
buildIndex_noEntries(entries) ==
    [buildFrom(entries, EmptyIndex) EXCEPT !.built = TRUE, !.entries = <<>>]

buildIndex(entries) == [buildFrom(entries, EmptyIndex) EXCEPT !.built = TRUE]

----------------------------------------------------------------------------
(* SearchEngine                                                            *)

Modes == {"strict", "normal", "broad"}

\* deduplicateByEntry: entryMap is the Map<entry id, ScoredResult> of the loop
RECURSIVE dedupInto(_, _)
dedupInto(entryMap, results) ==
    IF results = <<>> THEN entryMap
    ELSE dedupInto(
            IF ~MapHas(entryMap, Head(results).entry.id)
               \/ Head(results).score > MapGet(entryMap, Head(results).entry.id).score
            THEN MapSet(entryMap, Head(results).entry.id, Head(results))
            ELSE entryMap,
            Tail(results))

\* variant: the first candidate of an entry is kept, whatever its score
RECURSIVE dedupFirstInto(_, _)
dedupFirstInto(entryMap, results) ==
    IF results = <<>> THEN entryMap
    ELSE dedupFirstInto(
            IF ~MapHas(entryMap, Head(results).entry.id)
            THEN MapSet(entryMap, Head(results).entry.id, Head(results))
            ELSE entryMap,
            Tail(results))

deduplicateByEntry_first(results) == MapValues(dedupFirstInto(<<>>, results))

deduplicateByEntry(results) == MapValues(dedupInto(<<>>, results))

\* (a, b) => b.score - a.score is negative: a goes before b
scoreBefore(a, b) == b.score - a.score < 0

\* Array.prototype.sort is stable: x is placed before the first element it must precede
RECURSIVE insertByScore(_, _)
insertByScore(sorted, x) ==
    IF sorted = <<>> THEN <<x>>
    ELSE IF scoreBefore(x, Head(sorted)) THEN <<x>> \o sorted
    ELSE <<Head(sorted)>> \o insertByScore(Tail(sorted), x)

RECURSIVE sortByScoreFrom(_, _)
sortByScoreFrom(sorted, rest) ==
    IF rest = <<>> THEN sorted
    ELSE sortByScoreFrom(insertByScore(sorted, Head(rest)), Tail(rest))

\* variant: the array is left in the order of the deduplication
sortByScore_none(results) == results

sortByScore(results) == sortByScoreFrom(<<>>, results)

\* search-engine.ts:22 and :28, the tiers a mode adds to the exact tier
\* variant: the compound tier is read in every mode
compoundVisible_always(mode) == mode \in Modes

compoundVisible(mode) == mode = "normal" \/ mode = "broad"
descriptionVisible(mode) == mode = "broad"

\* the candidates pushed to results for one key (search-engine.ts:18-31)
tierResults(dict, term, mode) ==
    MapGet(dict.exactMatches, term)
    \o (IF compoundVisible(mode) THEN MapGet(dict.compoundWords, term) ELSE <<>>)
    \o (IF descriptionVisible(mode) THEN MapGet(dict.descriptionOnly, term) ELSE <<>>)

findScoredMatches(dict, query, mode) ==
    LET searchTerm == trim(toLowerCase(query))
    IN  sortByScore(deduplicateByEntry(tierResults(dict, searchTerm, mode)))

----------------------------------------------------------------------------
(* The fuzzy library: match and filter with the default options            *)

\* the score of a string equal to the pattern
Infinity == 1000000000

\* the for loop of match from position idx on
RECURSIVE fuzzyLoop(_, _, _, _, _, _)
fuzzyLoop(pattern, compareString, idx, patternIdx, currScore, totalScore) ==
    IF idx > Len(compareString) THEN [patternIdx |-> patternIdx, totalScore |-> totalScore]
    ELSE IF patternIdx < Len(pattern) /\ compareString[idx] = pattern[patternIdx + 1]
         THEN fuzzyLoop(pattern, compareString, idx + 1, patternIdx + 1,
                        currScore + 1 + currScore, totalScore + currScore + 1 + currScore)
         ELSE fuzzyLoop(pattern, compareString, idx + 1, patternIdx, 0, totalScore)

fuzzyMatch(pattern, str) ==
    LET p == toLowerCase(pattern)
        compareString == toLowerCase(str)
        r == fuzzyLoop(p, compareString, 1, 0, 0, 0)
    IN  [matched |-> r.patternIdx = Len(p),
         score |-> IF compareString = p THEN Infinity ELSE r.totalScore]

\* (a, b) => b.score - a.score || a.index - b.index is negative
fuzzyBefore(a, b) ==
    IF b.score - a.score # 0 THEN b.score - a.score < 0 ELSE a.index - b.index < 0

RECURSIVE insertFuzzy(_, _)
insertFuzzy(sorted, x) ==
    IF sorted = <<>> THEN <<x>>
    ELSE IF fuzzyBefore(x, Head(sorted)) THEN <<x>> \o sorted
    ELSE <<Head(sorted)>> \o insertFuzzy(Tail(sorted), x)

RECURSIVE sortFuzzyFrom(_, _)
sortFuzzyFrom(sorted, rest) ==
    IF rest = <<>> THEN sorted ELSE sortFuzzyFrom(insertFuzzy(sorted, Head(rest)), Tail(rest))

\* the reduce of filter: the matching elements with their score and array index
RECURSIVE fuzzyReduce(_, _, _)
fuzzyReduce(pattern, arr, idx) ==
    IF idx > Len(arr) THEN <<>>
    ELSE (IF fuzzyMatch(pattern, arr[idx]).matched
          THEN <<[original |-> arr[idx], score |-> fuzzyMatch(pattern, arr[idx]).score,
                  index |-> idx - 1]>>
          ELSE <<>>)
         \o fuzzyReduce(pattern, arr, idx + 1)

fuzzyFilter(pattern, arr) == sortFuzzyFrom(<<>>, fuzzyReduce(pattern, arr, 1))

----------------------------------------------------------------------------
(* SearchEngine.findFuzzyMatches                                           *)

\* Set.prototype.add for every element of keys, in order
RECURSIVE addAll(_, _)
addAll(set, keys) ==
    IF keys = <<>> THEN set
    ELSE addAll(IF Head(keys) \in Range(set) THEN set ELSE Append(set, Head(keys)), Tail(keys))

\* search-engine.ts:44-65
fuzzyKeys(dict, mode) ==
    addAll(addAll(addAll(<<>>, MapKeys(dict.exactMatches)),
                  IF compoundVisible(mode) THEN MapKeys(dict.compoundWords) ELSE <<>>),
           IF descriptionVisible(mode) THEN MapKeys(dict.descriptionOnly) ELSE <<>>)

\* variant: the 30% reduction is used as the factor
fuzzyPenalty_inverted(score) == (score * 3 + 5) \div 10

\* Math.round(result.score * 0.7)
fuzzyPenalty(score) == (score * 7 + 5) \div 10

penalise(results) == [i \in 1..Len(results) |-> [results[i] EXCEPT !.score = fuzzyPenalty(@)]]

\* the body of the for loop of search-engine.ts:70-102 for each matched key
RECURSIVE fuzzyCollect(_, _, _)
fuzzyCollect(dict, fuzzyResults, mode) ==
    IF fuzzyResults = <<>> THEN <<>>
    ELSE penalise(tierResults(dict, Head(fuzzyResults).original, mode))
         \o fuzzyCollect(dict, Tail(fuzzyResults), mode)

findFuzzyMatches(dict, query, mode, maxResults) ==
    LET fuzzyResults == fuzzyFilter(toLowerCase(query), fuzzyKeys(dict, mode))
        scoredResults == fuzzyCollect(dict, Slice(fuzzyResults, maxResults * 2), mode)
    IN  Slice(sortByScore(deduplicateByEntry(scoredResults)), maxResults)

----------------------------------------------------------------------------
(* SearchEngine.getSuggestions                                             *)

\* partialQuery.toLowerCase()
suggestionQuery(partialQuery) == toLowerCase(partialQuery)

\* search-engine.ts:116-120
RECURSIVE suggestExact(_, _, _, _)
suggestExact(suggestionsSoFar, keys, query, maxResults) ==
    IF keys = <<>> THEN suggestionsSoFar
    ELSE suggestExact(
            IF startsWith(Head(keys), query) /\ Len(suggestionsSoFar) < maxResults
            THEN Append(suggestionsSoFar, Head(keys)) ELSE suggestionsSoFar,
            Tail(keys), query, maxResults)

\* search-engine.ts:124-128
RECURSIVE suggestCompound(_, _, _, _)
suggestCompound(suggestionsSoFar, keys, query, maxResults) ==
    IF keys = <<>> THEN suggestionsSoFar
    ELSE suggestCompound(
            IF startsWith(Head(keys), query) /\ Head(keys) \notin Range(suggestionsSoFar)
               /\ Len(suggestionsSoFar) < maxResults
            THEN Append(suggestionsSoFar, Head(keys)) ELSE suggestionsSoFar,
            Tail(keys), query, maxResults)

\* suggestions.sort()
RECURSIVE insertString(_, _)
insertString(sorted, x) ==
    IF sorted = <<>> THEN <<x>>
    ELSE IF StrLess(x, Head(sorted)) THEN <<x>> \o sorted
    ELSE <<Head(sorted)>> \o insertString(Tail(sorted), x)

RECURSIVE sortStringsFrom(_, _)
sortStringsFrom(sorted, rest) ==
    IF rest = <<>> THEN sorted ELSE sortStringsFrom(insertString(sorted, Head(rest)), Tail(rest))

sortStrings(strings) == sortStringsFrom(<<>>, strings)

getSuggestions(dict, partialQuery, maxResults) ==
    LET query == suggestionQuery(partialQuery)
        fromExact == suggestExact(<<>>, MapKeys(dict.exactMatches), query, maxResults)
        all == IF Len(fromExact) < maxResults
               THEN suggestCompound(fromExact, MapKeys(dict.compoundWords), query, maxResults)
               ELSE fromExact
    IN  sortStrings(all)

----------------------------------------------------------------------------
(* JapaneseConverter                                                       *)

KATAKANA_TO_ROMAJI_MAP ==
      12450 :> <<97>> @@ 12452 :> <<105>> @@ 12454 :> <<117>> @@ 12456 :> <<101>> @@
      12458 :> <<111>> @@ 12459 :> <<107, 97>> @@ 12460 :> <<103, 97>> @@ 12461 :> <<107, 105>> @@
      12462 :> <<103, 105>> @@ 12463 :> <<107, 117>> @@ 12464 :> <<103, 117>> @@ 12465 :> <<107, 101>> @@
      12466 :> <<103, 101>> @@ 12467 :> <<107, 111>> @@ 12468 :> <<103, 111>> @@ 12469 :> <<115, 97>> @@
      12470 :> <<122, 97>> @@ 12471 :> <<115, 104, 105>> @@ 12472 :> <<106, 105>> @@ 12473 :> <<115, 117>> @@
      12474 :> <<122, 117>> @@ 12475 :> <<115, 101>> @@ 12476 :> <<122, 101>> @@ 12477 :> <<115, 111>> @@
      12478 :> <<122, 111>> @@ 12479 :> <<116, 97>> @@ 12480 :> <<100, 97>> @@ 12481 :> <<99, 104, 105>> @@
      12482 :> <<106, 105>> @@ 12483 :> <<>> @@ 12484 :> <<116, 115, 117>> @@ 12485 :> <<122, 117>> @@
      12486 :> <<116, 101>> @@ 12487 :> <<100, 101>> @@ 12488 :> <<116, 111>> @@ 12489 :> <<100, 111>> @@
      12490 :> <<110, 97>> @@ 12491 :> <<110, 105>> @@ 12492 :> <<110, 117>> @@ 12493 :> <<110, 101>> @@
      12494 :> <<110, 111>> @@ 12495 :> <<104, 97>> @@ 12496 :> <<98, 97>> @@ 12497 :> <<112, 97>> @@
      12498 :> <<104, 105>> @@ 12499 :> <<98, 105>> @@ 12500 :> <<112, 105>> @@ 12501 :> <<102, 117>> @@
      12502 :> <<98, 117>> @@ 12503 :> <<112, 117>> @@ 12504 :> <<104, 101>> @@ 12505 :> <<98, 101>> @@
      12506 :> <<112, 101>> @@ 12507 :> <<104, 111>> @@ 12508 :> <<98, 111>> @@ 12509 :> <<112, 111>> @@
      12510 :> <<109, 97>> @@ 12511 :> <<109, 105>> @@ 12512 :> <<109, 117>> @@ 12513 :> <<109, 101>> @@
      12514 :> <<109, 111>> @@ 12516 :> <<121, 97>> @@ 12518 :> <<121, 117>> @@ 12520 :> <<121, 111>> @@
      12521 :> <<114, 97>> @@ 12522 :> <<114, 105>> @@ 12523 :> <<114, 117>> @@ 12524 :> <<114, 101>> @@
      12525 :> <<114, 111>> @@ 12527 :> <<119, 97>> @@ 12530 :> <<119, 111>> @@ 12531 :> <<110>> @@
      12540 :> <<45>>

\* 'a', 'i', 'u', 'e', 'o'
VOWELS == {97, 105, 117, 101, 111}

\* the small tsu, U+30C3
SmallTsu == 12483

\* KATAKANA_TO_ROMAJI_MAP[char] is a truthy value: the key exists and its string is not empty
truthyMapping(char) ==
    char \in DOMAIN KATAKANA_TO_ROMAJI_MAP /\ KATAKANA_TO_ROMAJI_MAP[char] # <<>>

\* what iteration i of the loop of katakanaToRomaji appends to romaji
romajiStep(katakana, i) ==
    LET char == katakana[i]
    IN  IF ~truthyMapping(char) THEN <<char>>
        ELSE IF char = SmallTsu /\ i + 1 <= Len(katakana)
        THEN IF truthyMapping(katakana[i + 1])
                /\ KATAKANA_TO_ROMAJI_MAP[katakana[i + 1]][1] \notin VOWELS
             THEN <<KATAKANA_TO_ROMAJI_MAP[katakana[i + 1]][1]>>
             ELSE <<>>
        ELSE KATAKANA_TO_ROMAJI_MAP[char]

romajiSteps(katakana) == [i \in 1..Len(katakana) |-> romajiStep(katakana, i)]

katakanaToRomaji(katakana) == Flatten(romajiSteps(katakana))

\* replace(/[U+30A1-U+30F6]/g, char => String.fromCharCode(char.charCodeAt(0) - 0x60))
katakanaToHiragana(katakana) ==
    [i \in 1..Len(katakana) |->
        IF katakana[i] >= 12449 /\ katakana[i] <= 12534 THEN katakana[i] - 96 ELSE katakana[i]]

----------------------------------------------------------------------------
(* ResultProcessor                                                         *)

\* kana.filter(kana => JapaneseConverter.isKatakana(kana.text))
RECURSIVE filterKatakana(_)
filterKatakana(kana) ==
    IF kana = <<>> THEN <<>>
    ELSE IF isKatakana(Head(kana).text) THEN <<Head(kana)>> \o filterKatakana(Tail(kana))
    ELSE filterKatakana(Tail(kana))

\* variant: the comparator never puts a before b
commonBefore_never(a, b) == FALSE

\* the comparator of result-processor.ts:17-21 is negative: a goes before b
commonBefore(a, b) == a.common /\ ~b.common

RECURSIVE insertByCommon(_, _)
insertByCommon(sorted, x) ==
    IF sorted = <<>> THEN <<x>>
    ELSE IF commonBefore(x, Head(sorted)) THEN <<x>> \o sorted
    ELSE <<Head(sorted)>> \o insertByCommon(Tail(sorted), x)

RECURSIVE sortByCommonFrom(_, _)
sortByCommonFrom(sorted, rest) ==
    IF rest = <<>> THEN sorted
    ELSE sortByCommonFrom(insertByCommon(sorted, Head(rest)), Tail(rest))

\* the separator of join(', ')
CommaSpace == <<44, 32>>

RECURSIVE join(_)
join(texts) ==
    IF texts = <<>> THEN <<>>
    ELSE IF Len(texts) = 1 THEN Head(texts)
    ELSE Head(texts) \o CommaSpace \o join(Tail(texts))

RECURSIVE englishTexts(_)
englishTexts(glosses) ==
    IF glosses = <<>> THEN <<>>
    ELSE (IF Head(glosses).lang = "eng" \/ Head(glosses).lang = ""
          THEN <<Head(glosses).text>> ELSE <<>>)
         \o englishTexts(Tail(glosses))

extractMeaning(entry) ==
    IF entry.sense = <<>> THEN <<>> ELSE join(englishTexts(entry.sense[1]))

NoKanji == [defined |-> FALSE, text |-> <<>>]

\* entry.kanji?.find(k => !kana.appliesToKanji || kana.appliesToKanji.includes(k.text))?.text
RECURSIVE findCorrespondingKanji(_, _)
findCorrespondingKanji(kanji, kana) ==
    IF kanji = <<>> THEN NoKanji
    ELSE IF ~kana.appliesToKanji.defined \/ Head(kanji).text \in Range(kana.appliesToKanji.list)
         THEN [defined |-> TRUE, text |-> Head(kanji).text]
         ELSE findCorrespondingKanji(Tail(kanji), kana)

conversionOf(entry, kana) ==
    [katakana |-> kana.text,
     hiragana |-> katakanaToHiragana(kana.text),
     kanji |-> findCorrespondingKanji(entry.kanji, kana),
     romaji |-> katakanaToRomaji(kana.text),
     meaning |-> extractMeaning(entry),
     common |-> kana.common]

entryToConversions(entry) ==
    LET katakanaReadings == sortByCommonFrom(<<>>, filterKatakana(entry.kana))
    IN  [i \in 1..Len(katakanaReadings) |-> conversionOf(entry, katakanaReadings[i])]

\* deduplicateResults: seen is the Set of the katakana strings already kept
RECURSIVE dedupResultsFrom(_, _)
dedupResultsFrom(seen, results) ==
    IF results = <<>> THEN <<>>
    ELSE IF Head(results).katakana \in seen THEN dedupResultsFrom(seen, Tail(results))
    ELSE <<Head(results)>> \o dedupResultsFrom(seen \cup {Head(results).katakana}, Tail(results))

\* variant: nothing is ever recorded as seen
deduplicateResults_none(results) == results

deduplicateResults(results) == dedupResultsFrom({}, results)

\* entry.kana.some(k => k.common) || false
anyCommon(entry) == \E i \in 1..Len(entry.kana) : entry.kana[i].common

\* entry.kana.find(k => this.isKatakana(k.text))?.text || ''
firstKatakana(entry) ==
    IF filterKatakana(entry.kana) = <<>> THEN <<>> ELSE filterKatakana(entry.kana)[1].text

\* String.prototype.localeCompare, as its sign. Two readings of the model are equal,
\* one a prefix of the other, or first differ where they hold two different base kana:
\* there the collation order and the code-unit order agree.
localeCompare(a, b) == IF a = b THEN 0 ELSE IF StrLess(a, b) THEN -1 ELSE 1

\* variant: the commonality key is skipped
compareScored_noCommon(a, b) ==
    IF a.score # b.score THEN b.score - a.score
    ELSE localeCompare(firstKatakana(a.entry), firstKatakana(b.entry))

\* the comparator of result-processor.ts:60-74
compareScored(a, b) ==
    IF a.score # b.score THEN b.score - a.score
    ELSE IF anyCommon(a.entry) /\ ~anyCommon(b.entry) THEN -1
    ELSE IF ~anyCommon(a.entry) /\ anyCommon(b.entry) THEN 1
    ELSE localeCompare(firstKatakana(a.entry), firstKatakana(b.entry))

RECURSIVE insertScored(_, _)
insertScored(sorted, x) ==
    IF sorted = <<>> THEN <<x>>
    ELSE IF compareScored(x, Head(sorted)) < 0 THEN <<x>> \o sorted
    ELSE <<Head(sorted)>> \o insertScored(Tail(sorted), x)

RECURSIVE sortScoredFrom(_, _)
sortScoredFrom(sorted, rest) ==
    IF rest = <<>> THEN sorted ELSE sortScoredFrom(insertScored(sorted, Head(rest)), Tail(rest))

\* scoredResults.sort(...) of processScoredResults
sortScored(scoredResults) == sortScoredFrom(<<>>, scoredResults)

\* the for loop of result-processor.ts:77-80
RECURSIVE expandAll(_)
expandAll(sortedScored) ==
    IF sortedScored = <<>> THEN <<>>
    ELSE entryToConversions(Head(sortedScored).entry) \o expandAll(Tail(sortedScored))

processScoredResults(scoredResults) == deduplicateResults(expandAll(sortScored(scoredResults)))

----------------------------------------------------------------------------
(* EnglishToKatakanaConverter.convert                                      *)

\* variant: the fuzzy search is consulted whether or not the option is set
convertCandidates_alwaysFuzzy(dict, englishText, mode, useFuzzy, maxResults) ==
    LET query == trim(toLowerCase(englishText))
        scoredResults == findScoredMatches(dict, query, mode)
    IN  IF Len(scoredResults) = 0
        THEN findFuzzyMatches(dict, query, mode, maxResults)
        ELSE scoredResults

\* converter lines 42-47: the candidates handed to the result processor
convertCandidates(dict, englishText, mode, useFuzzy, maxResults) ==
    LET query == trim(toLowerCase(englishText))
        scoredResults == findScoredMatches(dict, query, mode)
    IN  IF Len(scoredResults) = 0 /\ useFuzzy
        THEN findFuzzyMatches(dict, query, mode, maxResults)
        ELSE scoredResults

convert(dict, englishText, mode, useFuzzy, maxResults) ==
    Slice(processScoredResults(convertCandidates(dict, englishText, mode, useFuzzy, maxResults)),
          maxResults)

----------------------------------------------------------------------------
(* The dictionary files of the model                                       *)

Kana(text, common) ==
    [text |-> text, common |-> common, appliesToKanji |-> [defined |-> FALSE, list |-> <<>>]]

Gloss(text, lang) == [text |-> text, lang |-> lang]

w_computer == <<99, 111, 109, 112, 117, 116, 101, 114>>                     \* computer
w_mobile == <<109, 111, 98, 105, 108, 101>>                                 \* mobile
w_house == <<104, 111, 117, 115, 101>>                                      \* house
w_beer == <<98, 101, 101, 114>>                                             \* beer
w_garden == <<103, 97, 114, 100, 101, 110>>                                 \* garden
w_bye == <<98, 121, 101>>                                                   \* bye
w_room == <<114, 111, 111, 109>>                                            \* room
w_building == <<98, 117, 105, 108, 100, 105, 110, 103>>                     \* building
w_company == <<99, 111, 109, 112, 97, 110, 121>>                            \* company
w_complete == <<99, 111, 109, 112, 108, 101, 116, 101>>                     \* complete
w_compare == <<99, 111, 109, 112, 97, 114, 101>>                            \* compare
w_comp == <<99, 111, 109, 112>>                                             \* comp
w_compter == <<99, 111, 109, 112, 116, 101, 114>>                           \* compter
w_party == <<112, 97, 114, 116, 121>>                                       \* party
Space == <<32>>

k_computer == <<12467, 12531, 12500, 12517, 12540, 12479, 12540>>           \* ko-n-pi-yu-:-ta-:
k_mobilehouse == <<12514, 12540, 12499, 12523, 12495, 12454, 12473>>        \* mo-:-bi-ru-ha-u-su
k_beer == <<12499, 12540, 12523>>                                           \* bi-:-ru
k_bia == <<12499, 12450>>                                                   \* bi-a
k_beergarden == <<12499, 12450, 12460, 12540, 12487, 12531>>                \* bi-a-ga-:-de-n
k_room == <<12523, 12540, 12512>>                                           \* ru-:-mu
h_room == <<12427, 12540, 12416>>                                           \* the same in hiragana
k_byebye == <<12496, 12452, 12496, 12452>>                                  \* ba-i-ba-i
k_comp == <<12467, 12531, 12503>>                                           \* ko-n-pu
k_garden == <<12460, 12540, 12487, 12531>>                                  \* ga-:-de-n
kanji_beer == <<40614, 37202>>

\* the entry of the end-to-end example
e_computer ==
    [id |-> "e1", kanji |-> <<>>, kana |-> <<Kana(k_computer, TRUE)>>,
     sense |-> << <<Gloss(w_computer, "eng")>> >>]

\* a compound gloss, a second sense "to be" of which no token survives, and a third
\* sense that is a description of several words, "(mobile; for the party)"
e_mobilehouse ==
    [id |-> "e2", kanji |-> <<>>, kana |-> <<Kana(k_mobilehouse, FALSE)>>,
     sense |-> << <<Gloss(w_mobile \o Space \o w_house, "eng")>>,
                  <<Gloss(<<116, 111, 32, 98, 101>>, "eng")>>,
                  <<Gloss(<<40>> \o w_mobile \o <<59, 32, 102, 111, 114, 32, 116, 104, 101, 32>>
                          \o w_party \o <<41>>, "eng")>> >>]

\* two katakana readings, the common one second; a kanji spelling
e_beer ==
    [id |-> "e3", kanji |-> <<[text |-> kanji_beer, common |-> FALSE]>>,
     kana |-> <<Kana(k_bia, FALSE), Kana(k_beer, TRUE)>>,
     sense |-> << <<Gloss(w_beer, "eng")>> >>]

\* shares the reading bi-a with e_beer
e_beergarden ==
    [id |-> "e4", kanji |-> <<>>, kana |-> <<Kana(k_beergarden, FALSE), Kana(k_bia, FALSE)>>,
     sense |-> << <<Gloss(w_beer \o Space \o w_garden, "eng")>> >>]

\* several glosses: "room" and "room (building)", the second without a language;
\* a hiragana reading before the katakana one
e_room ==
    [id |-> "e5", kanji |-> <<>>, kana |-> <<Kana(h_room, TRUE), Kana(k_room, TRUE)>>,
     sense |-> << <<Gloss(w_room, "eng"),
                    Gloss(w_room \o <<32, 40>> \o w_building \o <<41>>, "")>> >>]

\* a gloss with a repeated token, "bye bye", and a second sense in another language
e_byebye ==
    [id |-> "e6", kanji |-> <<>>, kana |-> <<Kana(k_byebye, FALSE)>>,
     sense |-> << <<Gloss(w_bye \o Space \o w_bye, "eng")>>, <<Gloss(w_room, "ger")>> >>]

\* " The Computer ": upper case, a stop word and surrounding blanks; the reading of e_computer
e_thecomputer ==
    [id |-> "e7", kanji |-> <<>>, kana |-> <<Kana(k_computer, FALSE)>>,
     sense |-> << <<Gloss(<<32, 84, 104, 101, 32, 67>> \o Tail(w_computer) \o Space, "")>> >>]

\* three single-word glosses
e_comp ==
    [id |-> "e8", kanji |-> <<>>, kana |-> <<Kana(k_comp, FALSE)>>,
     sense |-> << <<Gloss(w_company, "eng"), Gloss(w_complete, "eng"),
                    Gloss(w_compare, "eng")>> >>]

\* "party in a garden" and "garden party": garden is a later token of the first gloss
\* and the first token of the second
e_gardenparty ==
    [id |-> "e9", kanji |-> <<>>, kana |-> <<Kana(k_garden, FALSE)>>,
     sense |-> << <<Gloss(w_party \o <<32, 105, 110, 32, 97, 32>> \o w_garden, "eng"),
                    Gloss(w_garden \o Space \o w_party, "eng")>> >>]

EntryPool ==
    {e_computer, e_mobilehouse, e_beer, e_beergarden, e_room, e_byebye, e_thecomputer, e_comp,
     e_gardenparty}

\* dictionary files: up to MaxEntries different entries in any order
Corpora ==
    UNION {{c \in [1..n -> EntryPool] : \A i, j \in 1..n : i # j => c[i] # c[j]} :
           n \in 0..MaxEntries}

\* the texts searched for
Queries ==
    {w_computer, w_mobile, w_beer, Space \o <<66>> \o Tail(w_beer) \o Space, w_garden,
     w_bye, w_room, w_building, w_compter, <<>>, <<84, 104, 101>>}

\* the partial texts suggestions are asked for
PartialQueries == {w_comp, <<67>> \o Tail(w_comp), w_comp \o Space, <<98>>, <<>>}

\* the default of maxResults in convert and getSuggestions
DefaultMaxResults == 10

\* the maxResults arguments of getSuggestions and findFuzzyMatches, and of convert
Limits == (0..MaxLimit) \cup {DefaultMaxResults}
ConvertLimits == {1, DefaultMaxResults}

\* the characters of the strings given to katakanaToRomaji:
\* ka, a, small tsu, small yu and the long vowel mark
KanaAlphabet == {12459, 12450, SmallTsu, 12517, 12540}

KanaStrings == UNION {[1..n -> KanaAlphabet] : n \in 0..MaxKanaLen}

----------------------------------------------------------------------------
(* The data directory, the converter object and its asynchronous calls     *)

\* the slots of the calls that may be in flight on one converter
TaskIds == {1, 2}

\* a dictionary file: what JSON.parse makes of it, and its entries
File(shape, entries) == [exists |-> TRUE, shape |-> shape, entries |-> entries]

NoFile == [exists |-> FALSE, shape |-> "none", entries |-> <<>>]

IdleTask ==
    [op |-> "none", pc |-> "idle", query |-> <<>>, mode |-> "strict", fuzzy |-> FALSE,
     maxResults |-> 0, inst |-> 0, error |-> "none", late |-> FALSE, worked |-> FALSE,
     fellBack |-> FALSE, used |-> 0, out |-> <<>>, force |-> FALSE, before |-> NoFile]

IdleCli ==
    [pc |-> "idle", word |-> <<>>, mode |-> "strict", fuzzy |-> FALSE, max |-> 0,
     exit |-> -1, message |-> "none", converts |-> 0, suggests |-> 0, asked |-> <<>>,
     results |-> 0, printed |-> <<>>, force |-> FALSE]

\* a new process: nothing loaded, nothing called; the dictionary file is given by f
RunInitOn(f) ==
    /\ disk = [file |-> f, zip |-> FALSE, extracted |-> FALSE]
    /\ heap = <<>>
    /\ converter = [loader |-> 0, dictionary |-> 0, searchEngine |-> 0]
    /\ tasks = [t \in TaskIds |-> IdleTask]
    /\ effects = [calls |-> 0, downloads |-> 0, reads |-> 0, builds |-> 0, first |-> 0]
    /\ cli = IdleCli

RunInit == RunInitOn(NoFile)

\* the built-in sample dataset: computer, server, database, programming, application,
\* JavaScript, internet / net, website / site
SAMPLE_DICTIONARY_DATA ==
    << [id |-> "1", kanji |-> <<>>,
        kana |-> <<Kana(k_computer, TRUE)>>,
        sense |-> << <<Gloss(w_computer, "eng")>> >>],
       [id |-> "2", kanji |-> <<>>,
        kana |-> <<Kana(<<12469, 12540, 12496, 12540>>, TRUE)>>,
        sense |-> << <<Gloss(<<115, 101, 114, 118, 101, 114>>, "eng")>> >>],
       [id |-> "3", kanji |-> <<>>,
        kana |-> <<Kana(<<12487, 12540, 12479, 12505, 12540, 12473>>, TRUE)>>,
        sense |-> << <<Gloss(<<100, 97, 116, 97, 98, 97, 115, 101>>, "eng")>> >>],
       [id |-> "4", kanji |-> <<>>,
        kana |-> <<Kana(<<12503, 12525, 12464, 12521, 12511, 12531, 12464>>, TRUE)>>,
        sense |-> << <<Gloss(<<112, 114, 111, 103, 114, 97, 109, 109, 105, 110, 103>>,
                             "eng")>> >>],
       [id |-> "5", kanji |-> <<>>,
        kana |-> <<Kana(<<12450, 12503, 12522, 12465, 12540, 12471, 12519, 12531>>, TRUE),
                   Kana(<<12450, 12503, 12522>>, TRUE)>>,
        sense |-> << <<Gloss(<<97, 112, 112, 108, 105, 99, 97, 116, 105, 111, 110>>,
                             "eng")>> >>],
       [id |-> "6", kanji |-> <<>>,
        kana |-> <<Kana(<<12472, 12515, 12496, 12473, 12463, 12522, 12503, 12488>>, TRUE)>>,
        sense |-> << <<Gloss(<<74, 97, 118, 97, 83, 99, 114, 105, 112, 116>>, "eng")>> >>],
       [id |-> "7", kanji |-> <<>>,
        kana |-> <<Kana(<<12452, 12531, 12479, 12540, 12493, 12483, 12488>>, TRUE),
                   Kana(<<12493, 12483, 12488>>, TRUE)>>,
        sense |-> << <<Gloss(<<105, 110, 116, 101, 114, 110, 101, 116>>, "eng"),
                       Gloss(<<110, 101, 116>>, "eng")>> >>],
       [id |-> "8", kanji |-> <<>>,
        kana |-> <<Kana(<<12454, 12455, 12502, 12469, 12452, 12488>>, TRUE),
                   Kana(<<12469, 12452, 12488>>, TRUE)>>,
        sense |-> << <<Gloss(<<119, 101, 98, 115, 105, 116, 101>>, "eng"),
                       Gloss(<<115, 105, 116, 101>>, "eng")>> >>] >>

\* what JSON.parse makes of the dictionary file: an array, an object with a words
\* array, an object without words, an object whose words is no array, a number or
\* string or boolean, null; "invalid" is a file that is no JSON text
FileShapes == {"array", "words", "object", "wordsNotArray", "scalar", "null", "invalid"}

\* the entries of the dictionary files on disk and of the downloaded archive
DiskCorpora == {<<>>, <<e_computer>>, <<e_beer>>, SAMPLE_DICTIONARY_DATA}
RealCorpora == {<<e_computer>>, <<e_beer, e_beergarden>>}

\* the data directory at the start of a process
DiskFiles ==
    {NoFile} \cup {File(shape, entries) : shape \in {"array", "words"}, entries \in DiskCorpora}
    \cup {File(shape, <<>>) : shape \in FileShapes \ {"array", "words"}}

\* loader.ts:19-32: readFileSync, JSON.parse and the choice of the entries;
\* the error is the message or the class of what is thrown
parseDictionary(f) ==
    IF ~f.exists THEN [error |-> "ENOENT", entries |-> <<>>]
    ELSE IF f.shape = "invalid" THEN [error |-> "SyntaxError", entries |-> <<>>]
    ELSE IF f.shape = "array" THEN [error |-> "none", entries |-> f.entries]
    ELSE IF f.shape = "null" THEN [error |-> "TypeError", entries |-> <<>>]
    ELSE IF f.shape = "words" THEN [error |-> "none", entries |-> f.entries]
    ELSE [error |-> "Unsupported dictionary format", entries |-> <<>>]

\* variant: the catch block writes nothing
fallbackFile_keep(f) == f

\* downloader.ts:99, the file written by the catch block over the file f
fallbackFile(f) == File("array", SAMPLE_DICTIONARY_DATA)

----------------------------------------------------------------------------
(* The state machine                                                       *)

\* what the calls leave of the objects of the index they work on
\* variant: the penalised score is written into the stored candidate
storedAfterPenalty_inPlace(result) == [result EXCEPT !.score = fuzzyPenalty(@)]

\* search-engine.ts:78-81, :86-89, :94-97: the penalised candidate is a new object,
\* {...result, score}; the stored candidate is as it was
storedAfterPenalty(result) == result

\* variant: the kana array of the entry itself is sorted
kanaAfterConversions_inPlace(kana) == sortByCommonFrom(<<>>, kana)

\* result-processor.ts:15-21: filter makes a new array and sort orders that array;
\* the kana array of the entry is as it was
kanaAfterConversions(kana) == kana

\* the index after findFuzzyMatches has gone through the candidates stored under keys
afterPenalty(dict, keys, mode) ==
    LET list(l) == [j \in 1..Len(l) |-> storedAfterPenalty(l[j])]
        tier(m) == [i \in 1..Len(m) |->
                       IF m[i].key \in keys THEN [key |-> m[i].key, val |-> list(m[i].val)]
                       ELSE m[i]]
    IN  [dict EXCEPT !.exactMatches = tier(@),
                     !.compoundWords = IF compoundVisible(mode) THEN tier(@) ELSE @,
                     !.descriptionOnly = IF descriptionVisible(mode) THEN tier(@) ELSE @]

\* the index after processScoredResults has converted the entries of scoredResults:
\* an entry is one object, referred to by the entries map and by its candidates
afterConversions(dict, scoredResults) ==
    LET touched == {scoredResults[i].entry.id : i \in 1..Len(scoredResults)}
        after(entry) == IF entry.id \in touched
                        THEN [entry EXCEPT !.kana = kanaAfterConversions(@)] ELSE entry
        list(l) == [j \in 1..Len(l) |-> [l[j] EXCEPT !.entry = after(@)]]
        tier(m) == [i \in 1..Len(m) |-> [key |-> m[i].key, val |-> list(m[i].val)]]
    IN  [dict EXCEPT !.entries = [i \in 1..Len(@) |-> [key |-> @[i].key, val |-> after(@[i].val)]],
                     !.exactMatches = tier(@),
                     !.compoundWords = tier(@),
                     !.descriptionOnly = tier(@)]

\* the keys whose candidates findFuzzyMatches goes through (search-engine.ts:66, :70)
fuzzyTouched(dict, query, mode, maxResults) ==
    LET ranked == Slice(fuzzyFilter(toLowerCase(query), fuzzyKeys(dict, mode)), maxResults * 2)
    IN  {ranked[i].original : i \in 1..Len(ranked)}

NoCall ==
    [op |-> "none", query |-> <<>>, mode |-> "strict", fuzzy |-> FALSE, maxResults |-> 0,
     input |-> <<>>]

Init ==
    /\ corpus \in Corpora
    /\ indexedDict = EmptyIndex
    /\ call = NoCall
    /\ scored = <<>>
    /\ records = <<>>
    /\ suggestions = <<>>
    /\ romajiParts = <<>>
    /\ RunInit

\* DictionaryLoader.loadDictionary on a present, well-formed dictionary file
LoadDictionary ==
    /\ ~indexedDict.built
    /\ call.op = "none"
    /\ indexedDict' = buildIndex(corpus)
    /\ UNCHANGED <<corpus, call, scored, records, suggestions, romajiParts>>
    /\ UNCHANGED runVars

Ready == indexedDict.built /\ call.op = "none"

FindScoredMatches(q, mode) ==
    /\ Ready
    /\ call' = [NoCall EXCEPT !.op = "findScoredMatches", !.query = q, !.mode = mode]
    /\ scored' = findScoredMatches(indexedDict, q, mode)
    /\ UNCHANGED <<corpus, indexedDict, records, suggestions, romajiParts>>
    /\ UNCHANGED runVars

FindFuzzyMatches(q, mode, maxResults) ==
    /\ Ready
    /\ call' = [NoCall EXCEPT !.op = "findFuzzyMatches", !.query = q, !.mode = mode,
                              !.maxResults = maxResults]
    /\ scored' = findFuzzyMatches(indexedDict, q, mode, maxResults)
    /\ indexedDict' = afterPenalty(indexedDict, fuzzyTouched(indexedDict, q, mode, maxResults),
                                   mode)
    /\ UNCHANGED <<corpus, records, suggestions, romajiParts>>
    /\ UNCHANGED runVars

GetSuggestions(q, maxResults) ==
    /\ Ready
    /\ call' = [NoCall EXCEPT !.op = "getSuggestions", !.query = q, !.maxResults = maxResults]
    /\ suggestions' = getSuggestions(indexedDict, q, maxResults)
    /\ UNCHANGED <<corpus, indexedDict, scored, records, romajiParts>>
    /\ UNCHANGED runVars

\* every ScoredResult stored in one tier map, and in the whole index
tierCandidates(m) == UNION {Range(m[i].val) : i \in 1..Len(m)}

storedCandidates(dict) ==
    tierCandidates(dict.exactMatches) \cup tierCandidates(dict.compoundWords)
    \cup tierCandidates(dict.descriptionOnly)

\* the candidate arrays given to processScoredResults: stored candidates of the exact
\* tier (score 100) and first-token candidates of the compound tier (score 80)
CandidateArrays(dict) ==
    UNION {[1..n -> {c \in storedCandidates(dict) : c.matchType \in {"exact", "primary"}}] :
           n \in 0..MaxCands}

\* scored is the argument array after the in-place sort
ProcessScoredResults(input) ==
    /\ Ready
    /\ call' = [NoCall EXCEPT !.op = "processScoredResults", !.input = input]
    /\ scored' = sortScored(input)
    /\ records' = processScoredResults(input)
    /\ indexedDict' = afterConversions(indexedDict, input)
    /\ UNCHANGED <<corpus, suggestions, romajiParts>>
    /\ UNCHANGED runVars

\* scored is the candidate array of convert after the in-place sort of the processor
Convert(q, mode, useFuzzy, maxResults) ==
    /\ Ready
    /\ call' = [NoCall EXCEPT !.op = "convert", !.query = q, !.mode = mode,
                              !.fuzzy = useFuzzy, !.maxResults = maxResults]
    /\ scored' = sortScored(convertCandidates(indexedDict, q, mode, useFuzzy, maxResults))
    /\ records' = convert(indexedDict, q, mode, useFuzzy, maxResults)
    /\ indexedDict' =
          LET query == trim(toLowerCase(q))
              searched == IF Len(findScoredMatches(indexedDict, query, mode)) = 0 /\ useFuzzy
                          THEN afterPenalty(indexedDict,
                                            fuzzyTouched(indexedDict, query, mode, maxResults),
                                            mode)
                          ELSE indexedDict
          IN  afterConversions(searched,
                               convertCandidates(indexedDict, q, mode, useFuzzy, maxResults))
    /\ UNCHANGED <<corpus, suggestions, romajiParts>>
    /\ UNCHANGED runVars

\* JapaneseConverter.katakanaToRomaji is static: it needs no dictionary
KatakanaToRomaji(katakana) ==
    /\ call.op = "none"
    /\ call' = [NoCall EXCEPT !.op = "katakanaToRomaji", !.input = katakana]
    /\ romajiParts' = romajiSteps(katakana)
    /\ UNCHANGED <<corpus, indexedDict, scored, records, suggestions>>
    /\ UNCHANGED runVars

\* the caller takes the result; the next call starts from fresh locals
Return ==
    /\ call.op # "none"
    /\ call' = NoCall
    /\ scored' = <<>>
    /\ records' = <<>>
    /\ suggestions' = <<>>
    /\ romajiParts' = <<>>
    /\ UNCHANGED <<corpus, indexedDict>>
    /\ UNCHANGED runVars

Next ==
    \/ LoadDictionary
    \/ \E q \in Queries, mode \in Modes : FindScoredMatches(q, mode)
    \/ \E q \in Queries, mode \in Modes, maxResults \in Limits :
          FindFuzzyMatches(q, mode, maxResults)
    \/ \E q \in PartialQueries, maxResults \in Limits : GetSuggestions(q, maxResults)
    \/ \E input \in CandidateArrays(indexedDict) : ProcessScoredResults(input)
    \/ \E q \in Queries, mode \in Modes, useFuzzy \in BOOLEAN, maxResults \in ConvertLimits :
          Convert(q, mode, useFuzzy, maxResults)
    \/ Return

Spec == Init /\ [][Next]_vars

\* The character utilities are static and pure: they are exercised on their own,
\* without a dictionary.
InitRomaji ==
    /\ corpus = <<>>
    /\ indexedDict = EmptyIndex
    /\ call = NoCall
    /\ scored = <<>>
    /\ records = <<>>
    /\ suggestions = <<>>
    /\ romajiParts = <<>>
    /\ RunInit

NextRomaji ==
    \/ \E katakana \in KanaStrings : KatakanaToRomaji(katakana)
    \/ Return

SpecRomaji == InitRomaji /\ [][NextRomaji]_vars

\* ResultProcessor.entryToConversions is static and pure as well: it is exercised on
\* entries with up to MaxReadings readings, which are katakana or not, common or not
MaxReadings == 3

\* bi-:-ru and bi-a with either flag, a hiragana reading, and a reading that mixes
\* katakana with a Latin letter
KanaPool ==
    {Kana(k_beer, TRUE), Kana(k_beer, FALSE), Kana(k_bia, TRUE), Kana(k_bia, FALSE),
     Kana(h_room, TRUE), Kana(k_bia \o <<65>>, TRUE)}

KanaLists == UNION {[1..n -> KanaPool] : n \in 0..MaxReadings}

EntryToConversions(kana) ==
    /\ call.op = "none"
    /\ call' = [NoCall EXCEPT !.op = "entryToConversions",
                              !.input = <<[e_beer EXCEPT !.kana = kana]>>]
    /\ records' = entryToConversions([e_beer EXCEPT !.kana = kana])
    /\ UNCHANGED <<corpus, indexedDict, scored, suggestions, romajiParts>>
    /\ UNCHANGED runVars

InitConversions == InitRomaji

NextConversions ==
    \/ \E kana \in KanaLists : EntryToConversions(kana)
    \/ Return

SpecConversions == InitConversions /\ [][NextConversions]_vars

----------------------------------------------------------------------------
(* The asynchronous calls of EnglishToKatakanaConverter                    *)
(*                                                                         *)
(* JavaScript runs a call until its next await. A step of the model is     *)
(* the start of a call up to its first pending await, the end of a shell   *)
(* command together with the code that runs on its result, or the          *)
(* resumption of a call after an awaited promise has settled.              *)

\* calls made on one converter
MaxCalls == 3

\* index.ts:71 and :74
SuggestionPrefix == 3
PrintedSuggestions == 5

\* loader.ts:17-37 for task t: the file f is read and parsed, the index is built and
\* cached; base is the record of the task so far and eff the counters so far
FinishLoad(t, base, f, eff) ==
    LET parsed == parseDictionary(f)
        ref == Len(heap) + 1
    IN  IF parsed.error = "none"
        THEN /\ heap' = Append(heap, buildIndex(parsed.entries))
             /\ indexedDict' = buildIndex(parsed.entries)
             /\ converter' = [converter EXCEPT !.loader = ref]
             /\ tasks' = [tasks EXCEPT ![t] =
                             [base EXCEPT !.pc = "loaded", !.inst = ref, !.worked = TRUE]]
             /\ effects' = [eff EXCEPT !.reads = @ + 1, !.builds = @ + 1]
        ELSE /\ tasks' = [tasks EXCEPT ![t] =
                             [base EXCEPT !.pc = "loaded", !.error = parsed.error,
                                          !.worked = TRUE]]
             /\ effects' = [eff EXCEPT !.reads = @ + 1]
             /\ UNCHANGED <<heap, indexedDict, converter>>

\* initialize(), convert() or searchSuggestions() is called and runs to its first
\* await: ensureInitialized (converter :62-66), initialize (:21-24), loadDictionary
\* (loader.ts:8-15) and the start of downloadJMDict (downloader.ts:79-91, :110)
Call(t, op, q, mode, useFuzzy, maxResults) ==
    LET base == [IdleTask EXCEPT !.op = op, !.query = q, !.mode = mode, !.fuzzy = useFuzzy,
                                 !.maxResults = maxResults, !.late = effects.first # 0]
        eff == [effects EXCEPT !.calls = @ + 1]
    IN  /\ tasks[t].pc \in {"idle", "done", "failed", "downloaded"}
        /\ effects.calls < MaxCalls
        /\ IF op # "initialize" /\ converter.dictionary # 0 /\ converter.searchEngine # 0
           THEN /\ tasks' = [tasks EXCEPT ![t] = [base EXCEPT !.pc = "ready"]]
                /\ effects' = eff
                /\ UNCHANGED <<disk, heap, indexedDict, converter>>
           ELSE IF converter.loader # 0
           THEN /\ tasks' = [tasks EXCEPT ![t] =
                                [base EXCEPT !.pc = "loaded", !.inst = converter.loader]]
                /\ effects' = eff
                /\ UNCHANGED <<disk, heap, indexedDict, converter>>
           ELSE IF disk.file.exists
           THEN /\ FinishLoad(t, base, disk.file, eff)
                /\ UNCHANGED disk
           ELSE /\ tasks' = [tasks EXCEPT ![t] = [base EXCEPT !.pc = "curl", !.worked = TRUE]]
                /\ effects' = [eff EXCEPT !.downloads = @ + 1]
                /\ UNCHANGED <<disk, heap, indexedDict, converter>>
        /\ UNCHANGED searchVars

\* the shell commands of downloadRealJMDict, in order
ExecSteps == <<"curl", "unzip", "mv", "rm">>

\* what a successful command leaves in the data directory d (downloader.ts:110, :118,
\* :124, :130); found: the archive holds a file of the expected name; real: its entries
execEffect(d, step, found, real) ==
    CASE step = "curl" -> [d EXCEPT !.zip = TRUE]
      [] step = "unzip" -> [d EXCEPT !.extracted = @ \/ found]
      [] step = "mv" -> [d EXCEPT !.file = File("words", real), !.extracted = FALSE]
      [] OTHER -> [d EXCEPT !.zip = FALSE]

\* the command task t awaits ends, with exit status zero (ok) or not, and
\* downloadRealJMDict runs on: the next command, the return to the caller of
\* downloadJMDict (loadDictionary, or the caller of the exported function), or a
\* throw into the catch block of downloadJMDict (downloader.ts:94-104). The callback
\* of a command runs only when no resumption of a settled promise is pending.
ExecDone(t, ok, found, real) ==
    LET task == tasks[t]
        succeeded == /\ ok
                     /\ task.pc = "unzip" => disk.zip
                     /\ task.pc = "mv" => disk.extracted
        after == IF succeeded THEN execEffect(disk, task.pc, found, real) ELSE disk
        thrown == \/ ~succeeded
                  \/ task.pc = "curl" /\ ~after.zip
                  \/ task.pc = "unzip" /\ ~after.extracted
        next == CASE task.pc = "curl" -> "unzip" [] task.pc = "unzip" -> "mv" [] OTHER -> "rm"
    IN  /\ task.pc \in Range(ExecSteps)
        /\ \A u \in TaskIds : tasks[u].pc \notin {"loaded", "ready", "downloaded"}
        /\ IF thrown /\ task.op = "downloadJMDict"
           THEN /\ disk' = [after EXCEPT !.file = fallbackFile(@)]
                /\ tasks' = [tasks EXCEPT ![t] =
                                [task EXCEPT !.pc = "downloaded", !.fellBack = TRUE]]
                /\ UNCHANGED <<heap, indexedDict, converter, effects>>
           ELSE IF thrown
           THEN /\ disk' = [after EXCEPT !.file = fallbackFile(@)]
                /\ FinishLoad(t, [task EXCEPT !.fellBack = TRUE], fallbackFile(after.file),
                              effects)
           ELSE IF task.pc = "rm" /\ task.op = "downloadJMDict"
           THEN /\ disk' = after
                /\ tasks' = [tasks EXCEPT ![t].pc = "downloaded"]
                /\ UNCHANGED <<heap, indexedDict, converter, effects>>
           ELSE IF task.pc = "rm"
           THEN /\ disk' = after
                /\ FinishLoad(t, task, after.file, effects)
           ELSE /\ disk' = after
                /\ tasks' = [tasks EXCEPT ![t].pc = next]
                /\ UNCHANGED <<heap, indexedDict, converter, effects>>
        /\ UNCHANGED <<cli, searchVars>>

\* initialize resumes with the result of loadDictionary (converter :22-23); a call that
\* came through ensureInitialized goes on to its search
InitializeResume(t) ==
    LET task == tasks[t]
    IN  /\ task.pc = "loaded"
        /\ IF task.error # "none"
           THEN /\ tasks' = [tasks EXCEPT ![t].pc = "failed"]
                /\ UNCHANGED <<converter, effects>>
           ELSE /\ converter' = [converter EXCEPT !.dictionary = task.inst,
                                                  !.searchEngine = task.inst]
                /\ effects' = [effects EXCEPT !.first = IF @ = 0 THEN task.inst ELSE @]
                /\ tasks' = [tasks EXCEPT ![t] =
                                IF task.op = "initialize"
                                THEN [task EXCEPT !.pc = "done", !.used = task.inst]
                                ELSE [task EXCEPT !.pc = "ready"]]
        /\ UNCHANGED <<disk, heap, indexedDict, cli, searchVars>>

\* convert (converter :32-51) and searchSuggestions (:59) after ensureInitialized
Search(t) ==
    LET task == tasks[t]
        dict == heap[converter.searchEngine]
    IN  /\ task.pc = "ready"
        /\ tasks' = [tasks EXCEPT ![t] =
                        [task EXCEPT
                           !.pc = "done",
                           !.used = converter.searchEngine,
                           !.out = IF task.op = "convert"
                                   THEN convert(dict, task.query, task.mode, task.fuzzy,
                                                task.maxResults)
                                   ELSE getSuggestions(dict, task.query, DefaultMaxResults)]]
        /\ UNCHANGED <<disk, heap, indexedDict, converter, effects, cli, searchVars>>

\* a library user of one converter: the calls may overlap
InitConverter ==
    /\ \E f \in DiskFiles : RunInitOn(f)
    /\ corpus = <<>>
    /\ indexedDict = EmptyIndex
    /\ call = NoCall
    /\ scored = <<>>
    /\ records = <<>>
    /\ suggestions = <<>>
    /\ romajiParts = <<>>

NextConverter ==
    \/ \E t \in TaskIds : Call(t, "initialize", <<>>, "strict", FALSE, 0) /\ UNCHANGED cli
    \/ \E t \in TaskIds :
          Call(t, "convert", w_computer, "strict", FALSE, DefaultMaxResults) /\ UNCHANGED cli
    \/ \E t \in TaskIds :
          Call(t, "searchSuggestions", w_comp, "strict", FALSE, 0) /\ UNCHANGED cli
    \/ \E t \in TaskIds, ok \in BOOLEAN, found \in BOOLEAN, real \in RealCorpora :
          ExecDone(t, ok, found, real)
    \/ \E t \in TaskIds : InitializeResume(t)
    \/ \E t \in TaskIds : Search(t)

SpecConverter == InitConverter /\ [][NextConverter]_vars

----------------------------------------------------------------------------
(* The CLI main command: en-ka <word> [--mode m] [--fuzzy] [--max n]       *)

\* the command lines tried: the words, the --mode values and the --max values
CliWords == {w_computer, w_compter, <<>>}
CliModes == Modes \cup {"bogus"}
CliMax == {0, DefaultMaxResults}

\* variant: every --mode value is let through
validMode_any(mode) == TRUE

\* index.ts:38-40, validModes.includes(searchMode)
validMode(mode) == mode \in {"strict", "normal", "broad"}

\* variant: every suggestion is printed
shownSuggestions_all(all) == all

\* index.ts:74, suggestions.slice(0, 5)
shownSuggestions(all) == Slice(all, PrintedSuggestions)

\* index.ts:31-35: the action starts; a converter is made and initialize() is called
CliMain(word, mode, useFuzzy, max) ==
    /\ cli.pc = "idle"
    /\ cli' = [IdleCli EXCEPT !.pc = "initialize", !.word = word, !.mode = mode,
                              !.fuzzy = useFuzzy, !.max = max]
    /\ Call(1, "initialize", <<>>, "strict", FALSE, 0)

\* the action resumes after an awaited call of the converter has settled:
\* index.ts:38-50 after initialize, :52-90 after convert, :72-78 after
\* searchSuggestions, and the catch block :91-94 when the call has thrown
CliResume ==
    LET task == tasks[1]
        stay == UNCHANGED <<disk, heap, indexedDict, converter, tasks, effects, searchVars>>
    IN  /\ cli.pc \in {"initialize", "convert", "suggest"}
        /\ task.pc \in {"done", "failed"}
        /\ IF task.pc = "failed"
           THEN /\ cli' = [cli EXCEPT !.pc = "exited", !.exit = 1, !.message = task.error]
                /\ stay
           ELSE IF cli.pc = "initialize"
           THEN IF ~validMode(cli.mode)
                THEN /\ cli' = [cli EXCEPT !.pc = "exited", !.exit = 1,
                                           !.message = "Invalid mode"]
                     /\ stay
                ELSE /\ cli' = [cli EXCEPT !.pc = "convert", !.converts = @ + 1]
                     /\ Call(1, "convert", cli.word, cli.mode, cli.fuzzy, cli.max)
           ELSE IF cli.pc = "convert"
           THEN IF Len(task.out) = 0
                THEN /\ cli' = [cli EXCEPT !.pc = "suggest", !.suggests = @ + 1,
                                           !.asked = Slice(cli.word, SuggestionPrefix)]
                     /\ Call(1, "searchSuggestions", Slice(cli.word, SuggestionPrefix),
                             "strict", FALSE, 0)
                ELSE /\ cli' = [cli EXCEPT !.pc = "exited", !.exit = 0,
                                           !.results = Len(task.out)]
                     /\ stay
           ELSE /\ cli' = [cli EXCEPT !.pc = "exited", !.exit = 0,
                                      !.printed = shownSuggestions(task.out)]
                /\ stay

\* one run of the command in a new process
InitCli == InitConverter

NextCli ==
    \/ \E word \in CliWords, mode \in CliModes, useFuzzy \in BOOLEAN, max \in CliMax :
          CliMain(word, mode, useFuzzy, max)
    \/ CliResume
    \/ \E ok \in BOOLEAN, found \in BOOLEAN, real \in RealCorpora : ExecDone(1, ok, found, real)
    \/ InitializeResume(1)
    \/ Search(1)

SpecCli == InitCli /\ [][NextCli]_vars

----------------------------------------------------------------------------
(* The exported downloadJMDict and the CLI update command: en-ka update    *)

\* downloadJMDict(force) is called by task t and runs to its first await
\* (downloader.ts:79-91, :110): it returns at once on a cached file unless forced
DownloadJMDict(t, force) ==
    LET base == [IdleTask EXCEPT !.op = "downloadJMDict", !.force = force,
                                 !.before = disk.file]
    IN  /\ tasks[t].pc = "idle"
        /\ IF ~force /\ disk.file.exists
           THEN /\ tasks' = [tasks EXCEPT ![t] = [base EXCEPT !.pc = "downloaded"]]
                /\ UNCHANGED effects
           ELSE /\ tasks' = [tasks EXCEPT ![t] = [base EXCEPT !.pc = "curl", !.worked = TRUE]]
                /\ effects' = [effects EXCEPT !.downloads = @ + 1]
        /\ UNCHANGED <<disk, heap, indexedDict, converter, searchVars>>

\* the message of index.ts:113
UpdatedMessage == "Dictionary updated successfully!"

\* index.ts:102-112: the action of update starts; with --force it first awaits
\* downloadJMDict(true), without it it goes straight to initialize() of a new converter
CliUpdate(force) ==
    /\ cli.pc = "idle"
    /\ IF force
       THEN /\ cli' = [IdleCli EXCEPT !.pc = "download", !.force = TRUE]
            /\ DownloadJMDict(1, TRUE)
       ELSE /\ cli' = [IdleCli EXCEPT !.pc = "initialize"]
            /\ Call(1, "initialize", <<>>, "strict", FALSE, 0)

\* the action of update resumes: index.ts:111-112 after the forced download,
\* :113 after initialize, and the catch block :114-117 when initialize has thrown
UpdateResume ==
    LET task == tasks[1]
        stay == UNCHANGED <<disk, heap, indexedDict, converter, tasks, effects, searchVars>>
    IN  \/ /\ cli.pc = "download"
           /\ task.pc = "downloaded"
           /\ cli' = [cli EXCEPT !.pc = "initialize"]
           /\ Call(1, "initialize", <<>>, "strict", FALSE, 0)
        \/ /\ cli.pc = "initialize"
           /\ task.pc = "done"
           /\ cli' = [cli EXCEPT !.pc = "exited", !.exit = 0, !.message = UpdatedMessage]
           /\ stay
        \/ /\ cli.pc = "initialize"
           /\ task.pc = "failed"
           /\ cli' = [cli EXCEPT !.pc = "exited", !.exit = 1, !.message = task.error]
           /\ stay

\* a program that calls the exported downloadJMDict itself
UseDownloader(force) ==
    /\ cli.pc = "idle"
    /\ cli' = [IdleCli EXCEPT !.pc = "library"]
    /\ DownloadJMDict(1, force)

\* one run of update, or one use of the downloader, in a new process
InitUpdate == InitConverter

NextUpdate ==
    \/ \E force \in BOOLEAN : CliUpdate(force)
    \/ UpdateResume
    \/ \E force \in BOOLEAN : UseDownloader(force)
    \/ \E ok \in BOOLEAN, found \in BOOLEAN, real \in RealCorpora : ExecDone(1, ok, found, real)
    \/ InitializeResume(1)

SpecUpdate == InitUpdate /\ [][NextUpdate]_vars

----------------------------------------------------------------------------
(* Vocabulary of the properties                                            *)

\* the query of the current call, lower-cased and trimmed
NormalizedQuery == trim(toLowerCase(call.query))

\* the surviving tokens of every English or language-unspecified gloss of an entry
glossTokens(entry) ==
    {cleanWordsOf(trim(toLowerCase(g.text))) :
        g \in {h \in Range(allGlosses(entry)) : h.lang = "eng" \/ h.lang = ""}}

\* the entry has a gloss whose single surviving token is t
hasSingleToken(entry, t) == <<t>> \in glossTokens(entry)

\* the entry has a gloss of two or more surviving tokens, the first being t
hasFirstToken(entry, t) == \E cw \in glossTokens(entry) : Len(cw) >= 2 /\ cw[1] = t

\* the entry has a gloss of two or more surviving tokens, t being one after the first
hasLaterToken(entry, t) ==
    \E cw \in glossTokens(entry) : Len(cw) >= 2 /\ \E i \in 2..Len(cw) : cw[i] = t

\* the candidates stored under the normalized query, per tier
exactHits == Range(MapGet(indexedDict.exactMatches, NormalizedQuery))
compoundHits == Range(MapGet(indexedDict.compoundWords, NormalizedQuery))
descriptionHits == Range(MapGet(indexedDict.descriptionOnly, NormalizedQuery))

\* the candidates of the tiers the mode of the current call may read
visibleHits ==
    exactHits
    \cup (IF call.mode \in {"normal", "broad"} THEN compoundHits ELSE {})
    \cup (IF call.mode = "broad" THEN descriptionHits ELSE {})

scoredIds == {scored[i].entry.id : i \in 1..Len(scored)}

----------------------------------------------------------------------------
(* C1: findScoredMatches returns at most one candidate per entry id, the   *)
(* one kept for an entry carries the maximum score over the candidates of  *)
(* that entry stored under the normalized query in the visible tiers, and  *)
(* the result is in non-increasing score order.                            *)

C1_DedupMaxSorted ==
    call.op = "findScoredMatches" =>
        /\ \A i, j \in 1..Len(scored) : i # j => scored[i].entry.id # scored[j].entry.id
        /\ Range(scored) \subseteq visibleHits
        /\ \A c \in visibleHits :
              \E i \in 1..Len(scored) :
                  scored[i].entry.id = c.entry.id /\ scored[i].score >= c.score
        /\ \A i \in 1..(Len(scored) - 1) : scored[i].score >= scored[i + 1].score

\* an entry with two candidates of different scores was collapsed, the lower one first
C1_Witness ==
    /\ call.op = "findScoredMatches"
    /\ \E c, d \in visibleHits : c.entry.id = d.entry.id /\ c.score < d.score
    /\ \E i \in 1..(Len(scored) - 1) : scored[i].score > scored[i + 1].score

----------------------------------------------------------------------------
(* C2: tier inclusion by mode. strict returns only exact-tier candidates,  *)
(* normal only exact- and compound-tier candidates, broad candidates of    *)
(* the three tiers. When no English gloss has the normalized query as its  *)
(* single surviving token, convert without fuzzy returns nothing in strict *)
(* mode, and in normal mode returns records of the entries whose           *)
(* multi-token glosses contain the query as a token.                       *)

compoundEntriesOfQuery ==
    {e \in Range(corpus) : hasFirstToken(e, NormalizedQuery) \/ hasLaterToken(e, NormalizedQuery)}

noExactGloss == \A e \in Range(corpus) : ~hasSingleToken(e, NormalizedQuery)

C2_TierInclusion ==
    /\ call.op = "findScoredMatches" =>
          /\ call.mode = "strict" =>
                Range(scored) \subseteq exactHits /\ \A r \in Range(scored) : r.matchType = "exact"
          /\ call.mode = "normal" =>
                /\ Range(scored) \subseteq exactHits \cup compoundHits
                /\ \A r \in Range(scored) : r.matchType \in {"exact", "primary", "compound"}
          /\ call.mode = "broad" =>
                Range(scored) \subseteq exactHits \cup compoundHits \cup descriptionHits
    /\ (call.op = "convert" /\ ~call.fuzzy /\ noExactGloss) =>
          /\ call.mode = "strict" => records = <<>>
          /\ call.mode = "normal" =>
                /\ \A r \in Range(records) :
                      \E e \in compoundEntriesOfQuery :
                          /\ r.meaning = extractMeaning(e)
                          /\ \E k \in Range(e.kana) : k.text = r.katakana /\ k.common = r.common
                /\ (call.maxResults >= 1
                    /\ \E e \in compoundEntriesOfQuery : filterKatakana(e.kana) # <<>>)
                      => records # <<>>

\* convert in normal mode found the query only as a token of a compound gloss
C2_Witness ==
    /\ call.op = "convert"
    /\ call.mode = "normal"
    /\ ~call.fuzzy
    /\ noExactGloss
    /\ compoundEntriesOfQuery # {}
    /\ records # <<>>

----------------------------------------------------------------------------
(* C3: for every entry with an English or language-unspecified gloss of    *)
(* exactly one surviving token T, findScoredMatches(T, 'strict') contains  *)
(* the entry with score 100.                                               *)

C3_SingleTokenExact ==
    (call.op = "findScoredMatches" /\ call.mode = "strict") =>
        \A e \in Range(corpus) :
            hasSingleToken(e, call.query) =>
                \E r \in Range(scored) : r.entry = e /\ r.score = 100

\* two entries of the dictionary have the query as the single token of a gloss
C3_Witness ==
    /\ call.op = "findScoredMatches"
    /\ call.mode = "strict"
    /\ Cardinality({e \in Range(corpus) : hasSingleToken(e, call.query)}) >= 2
    /\ Len(scored) >= 2

----------------------------------------------------------------------------
(* C4: for every entry with a gloss of two or more surviving tokens and    *)
(* every token T of that gloss, findScoredMatches(T, 'normal') includes    *)
(* the entry: at score 100 when the entry also has a gloss whose single    *)
(* surviving token is T, otherwise at score 80 when T is the first token   *)
(* of one of its multi-token glosses, otherwise at score 60; and           *)
(* findScoredMatches(T, 'strict') includes the entry only when the entry   *)
(* has a gloss whose single surviving token is T.                          *)

C4_CompoundScores ==
    call.op = "findScoredMatches" =>
        \A e \in Range(corpus) :
            (hasFirstToken(e, call.query) \/ hasLaterToken(e, call.query)) =>
                /\ call.mode = "normal" =>
                      \E r \in Range(scored) :
                          /\ r.entry = e
                          /\ r.score = IF hasSingleToken(e, call.query) THEN 100
                                       ELSE IF hasFirstToken(e, call.query) THEN 80
                                       ELSE 60
                /\ call.mode = "strict" =>
                      (e.id \in scoredIds <=> hasSingleToken(e, call.query))

\* a later token that is nowhere a first or a single token is found at score 60
C4_Witness ==
    /\ call.op = "findScoredMatches"
    /\ call.mode = "normal"
    /\ \E e \in Range(corpus) :
          /\ hasLaterToken(e, call.query)
          /\ ~hasFirstToken(e, call.query)
          /\ ~hasSingleToken(e, call.query)
          /\ \E r \in Range(scored) : r.entry = e /\ r.score = 60

\* C4 as first stated: the first token is found at score 80 and a later token at
\* score 60 in normal mode, and neither is found in strict mode, for every corpus
C4_AsStated ==
    call.op = "findScoredMatches" =>
        \A e \in Range(corpus) :
            /\ (call.mode = "normal" /\ hasFirstToken(e, call.query)) =>
                  \E r \in Range(scored) : r.entry = e /\ r.score = 80
            /\ (call.mode = "normal" /\ hasLaterToken(e, call.query)) =>
                  \E r \in Range(scored) : r.entry = e /\ r.score = 60
            /\ (call.mode = "strict"
                /\ (hasFirstToken(e, call.query) \/ hasLaterToken(e, call.query))) =>
                  e.id \notin scoredIds

----------------------------------------------------------------------------
(* C5: every candidate returned by findFuzzyMatches is a copy of a stored  *)
(* candidate with score round(0.7 * base): 100 -> 70, 80 -> 56, 60 -> 42,  *)
(* 20 -> 14; the score never exceeds the stored score.                     *)

C5_FuzzyPenalty ==
    call.op = "findFuzzyMatches" =>
        \A r \in Range(scored) :
            /\ \E c \in storedCandidates(indexedDict) :
                  /\ c.entry = r.entry
                  /\ c.matchType = r.matchType
                  /\ c.matchedTerm = r.matchedTerm
                  /\ 10 * r.score > 7 * c.score - 5
                  /\ 10 * r.score <= 7 * c.score + 5
                  /\ r.score <= c.score
            /\ r.matchType = "exact" => r.score = 70
            /\ r.matchType = "primary" => r.score = 56
            /\ r.matchType = "compound" => r.score = 42
            /\ r.matchType = "description" => r.score = 14

\* the fuzzy path returned a copy of a first-token candidate
C5_Witness ==
    /\ call.op = "findFuzzyMatches"
    /\ \E r \in Range(scored) : r.matchType = "primary" /\ r.score = 56

----------------------------------------------------------------------------
(* C6: processScoredResults returns no two records with the same katakana  *)
(* string, and the record kept for a katakana string comes from the first  *)
(* entry, in sorted order, that owns that reading.                         *)

\* the position in the sorted candidates of the first entry owning the reading
firstOwner(katakana) ==
    CHOOSE i \in 1..Len(scored) :
        /\ katakana \in katakanaOf(scored[i].entry)
        /\ \A j \in 1..(i - 1) : katakana \notin katakanaOf(scored[j].entry)

C6_UniqueKatakana ==
    call.op = "processScoredResults" =>
        /\ \A i, j \in 1..Len(records) : i # j => records[i].katakana # records[j].katakana
        /\ \A i \in 1..Len(scored) :
              katakanaOf(scored[i].entry) \subseteq {records[j].katakana : j \in 1..Len(records)}
        /\ \A r \in Range(records) :
              /\ \E i \in 1..Len(scored) : r.katakana \in katakanaOf(scored[i].entry)
              /\ r.meaning = extractMeaning(scored[firstOwner(r.katakana)].entry)
              /\ r.kanji.defined = (scored[firstOwner(r.katakana)].entry.kanji # <<>>)

\* two different entries of the input own the same reading
C6_Witness ==
    /\ call.op = "processScoredResults"
    /\ \E i, j \in 1..Len(scored) :
          /\ scored[i].entry.id # scored[j].entry.id
          /\ katakanaOf(scored[i].entry) \cap katakanaOf(scored[j].entry) # {}
    /\ records # <<>>

----------------------------------------------------------------------------
(* C7: processScoredResults expands the candidates in the order of the     *)
(* three-level key: higher score first; on equal score an entry with a     *)
(* common kana reading first; on equal score and commonality the lower     *)
(* first katakana reading first.                                           *)

\* a may stand before b under the three-level key
keyOrdered(a, b) ==
    \/ a.score > b.score
    \/ /\ a.score = b.score
       /\ anyCommon(a.entry) /\ ~anyCommon(b.entry)
    \/ /\ a.score = b.score
       /\ anyCommon(a.entry) = anyCommon(b.entry)
       /\ ~StrLess(firstKatakana(b.entry), firstKatakana(a.entry))

C7_ThreeLevelOrder ==
    call.op = "processScoredResults" =>
        /\ Len(scored) = Len(call.input)
        /\ \A c \in Range(call.input) :
              Cardinality({i \in 1..Len(scored) : scored[i] = c})
                  = Cardinality({i \in 1..Len(call.input) : call.input[i] = c})
        /\ \A i, j \in 1..Len(scored) : i < j => keyOrdered(scored[i], scored[j])
        /\ \A i, j \in 1..Len(records) :
              i < j => firstOwner(records[i].katakana) <= firstOwner(records[j].katakana)

\* two candidates of equal score arrived with the entry without a common reading first
C7_Witness ==
    /\ call.op = "processScoredResults"
    /\ Len(call.input) >= 2
    /\ call.input[1].score = call.input[2].score
    /\ ~anyCommon(call.input[1].entry)
    /\ anyCommon(call.input[2].entry)
    /\ scored[1] = call.input[2]
    /\ Len(records) >= 2

----------------------------------------------------------------------------
(* C8: in katakanaToRomaji a small tsu followed by a syllable whose romaji *)
(* starts with a consonant contributes exactly that consonant; a small tsu *)
(* at the end of the string or before a syllable starting with a vowel     *)
(* contributes nothing.                                                    *)

C8_SmallTsu ==
    call.op = "katakanaToRomaji" =>
        \A i \in 1..Len(call.input) :
            call.input[i] = SmallTsu =>
                /\ (i < Len(call.input) /\ truthyMapping(call.input[i + 1])
                    /\ KATAKANA_TO_ROMAJI_MAP[call.input[i + 1]][1] \notin VOWELS)
                      => romajiParts[i] = <<KATAKANA_TO_ROMAJI_MAP[call.input[i + 1]][1]>>
                /\ (i = Len(call.input)
                    \/ (i < Len(call.input) /\ truthyMapping(call.input[i + 1])
                        /\ KATAKANA_TO_ROMAJI_MAP[call.input[i + 1]][1] \in VOWELS))
                      => romajiParts[i] = <<>>

----------------------------------------------------------------------------
(* C9: over a dictionary holding the entry with the common reading         *)
(* ko-n-pi-yu-:-ta-: and the single English gloss "computer",              *)
(* convert("computer", strict) returns exactly one record, with that       *)
(* katakana, its hiragana, romaji "konpyu-ta-", meaning "computer" and     *)
(* common true.                                                            *)

C9_EndToEnd ==
    (/\ call.op = "convert"
     /\ call.query = w_computer
     /\ call.mode = "strict"
     /\ call.maxResults >= 1
     /\ e_computer \in Range(corpus)
     /\ e_thecomputer \notin Range(corpus)) =>
        /\ Len(records) = 1
        /\ records[1].katakana = k_computer
        /\ records[1].hiragana = <<12371, 12435, 12404, 12421, 12540, 12383, 12540>>
        /\ records[1].romaji = <<107, 111, 110, 112, 121, 117, 45, 116, 97, 45>>
        /\ records[1].meaning = w_computer
        /\ records[1].common

----------------------------------------------------------------------------
(* C10: getSuggestions returns at most maxResults distinct index keys,     *)
(* each starting with the lower-cased and trimmed partial query, taken     *)
(* from the exact tier first in iteration order and then from the compound *)
(* tier until the limit is reached, in ascending lexicographic order.      *)

C10_Suggestions ==
    call.op = "getSuggestions" =>
        LET hasPrefix(k) == startsWith(k, NormalizedQuery)
            fromExact == SelectSeq(MapKeys(indexedDict.exactMatches), hasPrefix)
            isNew(k) == hasPrefix(k) /\ k \notin Range(fromExact)
            fromCompound == SelectSeq(MapKeys(indexedDict.compoundWords), isNew)
        IN  /\ Len(suggestions) <= call.maxResults
            /\ \A i, j \in 1..Len(suggestions) : i # j => suggestions[i] # suggestions[j]
            /\ \A i \in 1..Len(suggestions) : hasPrefix(suggestions[i])
            /\ Range(suggestions) = Range(Slice(fromExact \o fromCompound, call.maxResults))
            /\ \A i \in 1..(Len(suggestions) - 1) : StrLess(suggestions[i], suggestions[i + 1])

----------------------------------------------------------------------------
(* C11: for findScoredMatches, findFuzzyMatches and getSuggestions, in     *)
(* every mode, an empty query string, a query matching no key, or an empty *)
(* dictionary yields an empty sequence.                                    *)

\* the keys the current call may look at
visibleKeys ==
    IF call.op = "getSuggestions"
    THEN Range(MapKeys(indexedDict.exactMatches)) \cup Range(MapKeys(indexedDict.compoundWords))
    ELSE Range(fuzzyKeys(indexedDict, call.mode))

\* the query of the current call matches a key: equality for the exact lookup, prefix
\* for the suggestions, subsequence for the fuzzy search
matchesKey(k) ==
    CASE call.op = "findScoredMatches" -> k = NormalizedQuery
      [] call.op = "getSuggestions" -> startsWith(k, NormalizedQuery)
      [] OTHER -> fuzzyMatch(toLowerCase(call.query), k).matched

C11_EmptyResults ==
    (/\ call.op \in {"findScoredMatches", "findFuzzyMatches", "getSuggestions"}
     /\ \/ call.query = <<>>
        \/ corpus = <<>>
        \/ \A k \in visibleKeys : ~matchesKey(k)) =>
        /\ scored = <<>>
        /\ suggestions = <<>>

----------------------------------------------------------------------------
(* C12: after the first initialize() of a converter has completed          *)
(* successfully, a call of initialize(), convert() or searchSuggestions()  *)
(* started later performs no download, no file read and no index build,    *)
(* and every such call uses the IndexedDictionary instance the first       *)
(* initialize() stored.                                                    *)

C12_Idempotent ==
    \A t \in TaskIds :
        tasks[t].late =>
            /\ ~tasks[t].worked
            /\ tasks[t].pc = "done" => tasks[t].used = effects.first

----------------------------------------------------------------------------
(* C13: when the download or the extraction inside downloadJMDict fails,   *)
(* downloadJMDict returns without raising, the dictionary file then holds  *)
(* the built-in sample dataset, and the loadDictionary that follows        *)
(* succeeds: it builds and returns the index of the sample dataset.        *)

C13_FallbackNotFatal ==
    \A t \in TaskIds :
        tasks[t].fellBack =>
            /\ tasks[t].pc \in {"loaded", "ready", "done"}
            /\ tasks[t].error = "none"
            /\ tasks[t].inst \in 1..Len(heap)
            /\ heap[tasks[t].inst] = buildIndex(SAMPLE_DICTIONARY_DATA)

C13_Witness ==
    \E t \in TaskIds :
        /\ tasks[t].fellBack
        /\ tasks[t].pc = "done"
        /\ disk.file = File("array", SAMPLE_DICTIONARY_DATA)

----------------------------------------------------------------------------
(* C14: loadDictionary accepts a parsed JSON array of entries and a parsed *)
(* object whose words field is an array of entries, and nothing else: for  *)
(* any other parsed shape it raises 'Unsupported dictionary format', no    *)
(* IndexedDictionary is cached, and the CLI command exits with a non-zero  *)
(* status without searching.                                               *)

C14_FormatError ==
    (/\ tasks[1].op = "initialize"
     /\ tasks[1].pc \in {"loaded", "done", "failed"}
     /\ disk.file.shape # "invalid") =>
        IF disk.file.shape \in {"array", "words"}
        THEN /\ tasks[1].error = "none"
             /\ indexedDict.built
        ELSE /\ tasks[1].error = "Unsupported dictionary format"
             /\ ~indexedDict.built
             /\ converter.loader = 0
             /\ cli.pc = "exited" => cli.exit # 0
             /\ cli.converts = 0 /\ cli.suggests = 0

----------------------------------------------------------------------------
(* C15: in the CLI main command a --mode value other than strict, normal   *)
(* or broad never reaches a search: convert and searchSuggestions are not  *)
(* called in that run, and the run exits with status 1. When initialize()  *)
(* has succeeded the message is the one listing the valid modes; when      *)
(* initialize() has failed the message is the error of the failed load.    *)

C15_InvalidMode ==
    cli.mode \notin Modes =>
        /\ cli.converts = 0 /\ cli.suggests = 0
        /\ cli.pc \in {"initialize", "exited"}
        /\ cli.pc = "exited" =>
              /\ cli.exit = 1
              /\ cli.message = IF tasks[1].pc = "done" THEN "Invalid mode" ELSE tasks[1].error
              /\ tasks[1].pc = "failed" => tasks[1].error # "none"

C15_Witness ==
    /\ cli.pc = "exited"
    /\ cli.mode = "bogus"
    /\ cli.message = "Invalid mode"
    /\ indexedDict.built

\* the statement without the case of a failed initialize(): the message always
\* lists the valid modes
C15_AsStated ==
    (cli.mode \notin Modes /\ cli.pc = "exited") =>
        /\ cli.converts = 0 /\ cli.suggests = 0
        /\ cli.message = "Invalid mode"
        /\ cli.exit = 1

----------------------------------------------------------------------------
(* C16: in the CLI main command a word for which convert returns zero      *)
(* records ends the run with status 0, after one call of searchSuggestions *)
(* on the first three characters of the word, of whose result at most the  *)
(* first five suggestions are printed.                                     *)

C16_NoMatch ==
    (/\ cli.pc = "exited"
     /\ cli.converts = 1
     /\ convert(indexedDict, cli.word, cli.mode, cli.fuzzy, cli.max) = <<>>) =>
        /\ cli.exit = 0
        /\ cli.message = "none"
        /\ cli.suggests = 1
        /\ cli.asked = SubSeq(cli.word, 1, IF Len(cli.word) < 3 THEN Len(cli.word) ELSE 3)
        /\ tasks[1].op = "searchSuggestions"
        /\ tasks[1].out = getSuggestions(indexedDict, cli.asked, 10)
        /\ Len(cli.printed) <= 5
        /\ \A i \in 1..Len(cli.printed) : cli.printed[i] = tasks[1].out[i]
        /\ Len(cli.printed) < 5 => cli.printed = tasks[1].out

C16_Witness ==
    /\ cli.pc = "exited"
    /\ cli.suggests = 1
    /\ Len(tasks[1].out) > 5
    /\ Len(cli.printed) = 5

----------------------------------------------------------------------------
(* C17: in every IndexedDictionary returned by buildIndex, each            *)
(* ScoredCandidate stored in the exact, compound or description map refers *)
(* to an entry whose id is a key of the entries map.                       *)

C17_CandidatesHaveEntries ==
    indexedDict.built =>
        \A c \in storedCandidates(indexedDict) :
            /\ c.entry.id \in Range(MapKeys(indexedDict.entries))
            /\ MapGet(indexedDict.entries, c.entry.id) = c.entry

C17_Witness ==
    /\ indexedDict.built
    /\ Len(indexedDict.entries) >= 2
    /\ tierCandidates(indexedDict.exactMatches) # {}
    /\ tierCandidates(indexedDict.compoundWords) # {}
    /\ tierCandidates(indexedDict.descriptionOnly) # {}

----------------------------------------------------------------------------
(* C18: every key of the exact, compound and description maps is           *)
(* lower-case, has no leading or trailing white space, is longer than two  *)
(* characters and is no stop word; findScoredMatches returns no candidate, *)
(* in any mode, for a query whose normalized form has length <= 2 or is a  *)
(* stop word.                                                              *)

\* the keys of the three tier maps
allKeys ==
    Range(MapKeys(indexedDict.exactMatches)) \cup Range(MapKeys(indexedDict.compoundWords))
    \cup Range(MapKeys(indexedDict.descriptionOnly))

C18_CleanKeys ==
    /\ \A k \in allKeys :
          /\ \A i \in 1..Len(k) : k[i] \notin 65..90
          /\ k[1] \notin WhiteSpace /\ k[Len(k)] \notin WhiteSpace
          /\ Len(k) > 2
          /\ k \notin commonWords
    /\ (/\ call.op = "findScoredMatches"
        /\ Len(NormalizedQuery) <= 2 \/ NormalizedQuery \in commonWords) =>
          scored = <<>>

C18_Witness ==
    /\ call.op = "findScoredMatches"
    /\ call.mode = "broad"
    /\ NormalizedQuery \in commonWords
    /\ e_thecomputer \in Range(corpus)
    /\ scored = <<>>

----------------------------------------------------------------------------
(* C19: findFuzzyMatches(query, mode, maxCandidates) returns at most       *)
(* maxCandidates candidates, at most one per entry id, in non-increasing   *)
(* score order; every returned candidate is the penalised copy of a        *)
(* candidate stored in a tier visible under the mode, and it carries the   *)
(* highest penalised score among the candidates of its entry that the      *)
(* search collected (those stored in the visible tiers under the first     *)
(* 2 * maxCandidates keys of the fuzzy ranking).                           *)

\* the match types of the tiers a mode may read
visibleTypes(mode) ==
    {"exact"} \cup (IF mode \in {"normal", "broad"} THEN {"primary", "compound"} ELSE {})
    \cup (IF mode = "broad" THEN {"description"} ELSE {})

\* the keys whose candidates the fuzzy search of the current call collects
collectedKeys ==
    LET ranked == fuzzyFilter(toLowerCase(call.query), fuzzyKeys(indexedDict, call.mode))
    IN  {ranked[i].original : i \in 1..(IF 2 * call.maxResults < Len(ranked)
                                       THEN 2 * call.maxResults ELSE Len(ranked))}

C19_FuzzyResult ==
    call.op = "findFuzzyMatches" =>
        /\ Len(scored) <= call.maxResults
        /\ \A i, j \in 1..Len(scored) : i # j => scored[i].entry.id # scored[j].entry.id
        /\ \A i \in 1..(Len(scored) - 1) : scored[i].score >= scored[i + 1].score
        /\ \A r \in Range(scored) :
              /\ r.matchType \in visibleTypes(call.mode)
              /\ r.matchedTerm \in collectedKeys
              /\ \E c \in storedCandidates(indexedDict) :
                    [c EXCEPT !.score = r.score] = r /\ 10 * r.score <= 7 * c.score + 5
              /\ \A c \in storedCandidates(indexedDict) :
                    (/\ c.entry.id = r.entry.id
                     /\ c.matchType \in visibleTypes(call.mode)
                     /\ c.matchedTerm \in collectedKeys) => 7 * c.score <= 10 * r.score + 5

\* two entries collected under one key in increasing score order, and a limit that
\* cuts the result
C19_Witness ==
    /\ call.op = "findFuzzyMatches"
    /\ call.query = w_garden
    /\ corpus = <<e_beergarden, e_gardenparty>>
    /\ \/ Len(scored) = 2 /\ scored[1].score = 56 /\ scored[2].score = 42
       \/ call.maxResults = 1 /\ Len(scored) = 1 /\ scored[1].score = 56

----------------------------------------------------------------------------
(* C20: findScoredMatches, findFuzzyMatches, getSuggestions,               *)
(* processScoredResults and convert leave the IndexedDictionary as         *)
(* buildIndex made it: the entries map, the three tier maps with their     *)
(* candidate lists and scores, the katakana set and the kana order of      *)
(* every entry.                                                            *)

----------------------------------------------------------------------------
(* C21: every run of en-ka update, with or without --force and whether or  *)
(* not a dictionary file is cached, performs a download before it reports  *)
(* 'Dictionary updated successfully!'.                                     *)

C21_UpdateDownloads ==
    cli.message = UpdatedMessage => effects.downloads >= 1

----------------------------------------------------------------------------
(* C22: tier assignment in buildIndex, per English or language-unspecified *)
(* gloss. A gloss with exactly one surviving token adds exactly one        *)
(* candidate (score 100, type exact) to the exact map and none to the      *)
(* compound map; a gloss with N >= 2 surviving tokens adds exactly N       *)
(* candidates to the compound map, the first token at score 80 (type       *)
(* primary) and each later token at score 60 (type compound), and none to  *)
(* the exact map; a gloss without surviving token adds nothing to either.  *)
(* Every stored score is one of 100, 80, 60, 20.                           *)

\* the surviving tokens of gloss i of an entry; none for a gloss in another language
tokensOfGloss(entry, i) ==
    LET g == allGlosses(entry)[i]
    IN  IF g.lang = "eng" \/ g.lang = "" THEN cleanWordsOf(trim(toLowerCase(g.text))) ELSE <<>>

\* the places <<gloss, position>> of an entry where token w is due in the exact map, and
\* in the compound map as the first token or as a later one
exactPlaces(entry, w) ==
    {i \in 1..Len(allGlosses(entry)) : tokensOfGloss(entry, i) = <<w>>}

compoundPlaces(entry, w, first) ==
    UNION {{<<i, p>> : p \in {q \in 1..Len(tokensOfGloss(entry, i)) :
                                /\ Len(tokensOfGloss(entry, i)) >= 2
                                /\ tokensOfGloss(entry, i)[q] = w
                                /\ first <=> q = 1}} :
           i \in 1..Len(allGlosses(entry))}

\* every token of every gloss of the dictionary file
corpusTokens ==
    UNION {UNION {Range(tokensOfGloss(e, i)) : i \in 1..Len(allGlosses(e))} :
           e \in Range(corpus)}

\* how many candidates of the list stored under w in tier map m are r
storedCount(m, w, r) ==
    Cardinality({j \in 1..Len(MapGet(m, w)) : MapGet(m, w)[j] = r})

C22_TierAssignment ==
    (indexedDict.built /\ call.op = "none") =>
        /\ \A w \in corpusTokens \cup allKeys :
              /\ \A e \in Range(corpus) :
                    /\ storedCount(indexedDict.exactMatches, w, ScoredResult(e, 100, "exact", w))
                          = Cardinality(exactPlaces(e, w))
                    /\ storedCount(indexedDict.compoundWords, w,
                                   ScoredResult(e, 80, "primary", w))
                          = Cardinality(compoundPlaces(e, w, TRUE))
                    /\ storedCount(indexedDict.compoundWords, w,
                                   ScoredResult(e, 60, "compound", w))
                          = Cardinality(compoundPlaces(e, w, FALSE))
              /\ \A r \in Range(MapGet(indexedDict.exactMatches, w)) :
                    r.entry \in Range(corpus) /\ r = ScoredResult(r.entry, 100, "exact", w)
              /\ \A r \in Range(MapGet(indexedDict.compoundWords, w)) :
                    /\ r.entry \in Range(corpus)
                    /\ \/ r = ScoredResult(r.entry, 80, "primary", w)
                       \/ r = ScoredResult(r.entry, 60, "compound", w)
        /\ \A r \in storedCandidates(indexedDict) : r.score \in {100, 80, 60, 20}

\* the index of "room", "room (building)", "mobile house" and "to be": a gloss of one
\* token, two glosses of two tokens and an English gloss of which no token survives
C22_Witness ==
    /\ indexedDict.built
    /\ call.op = "none"
    /\ MapGet(indexedDict.exactMatches, w_room) = <<ScoredResult(e_room, 100, "exact", w_room)>>
    /\ MapGet(indexedDict.compoundWords, w_room)
          = <<ScoredResult(e_room, 80, "primary", w_room)>>
    /\ MapGet(indexedDict.compoundWords, w_house)
          = <<ScoredResult(e_mobilehouse, 60, "compound", w_house)>>
    /\ \E i \in 1..Len(allGlosses(e_mobilehouse)) :
          allGlosses(e_mobilehouse)[i].lang = "eng" /\ tokensOfGloss(e_mobilehouse, i) = <<>>
    /\ Cardinality(allKeys) = 5

----------------------------------------------------------------------------
(* C23: convert consults findFuzzyMatches only when findScoredMatches      *)
(* returned no candidate for the query and the fuzzy option is true. When  *)
(* fuzzy is false no fuzzy-sourced record is returned; when the lookup of  *)
(* the query returns at least one candidate the fuzzy path is not used     *)
(* even if fuzzy is true. The candidates convert works on are then stored  *)
(* candidates of the query, with their stored scores; with fuzzy false and *)
(* no stored candidate there is no result; the candidates of the fuzzy     *)
(* path carry penalised scores.                                            *)

----------------------------------------------------------------------------
(* C24: entryToConversions returns exactly one record per kana reading of  *)
(* the entry whose text is katakana and none for the other readings; the   *)
(* records of the readings flagged common come before the others, and      *)
(* within each group the readings keep their order in the entry; the       *)
(* common flag of a record is the flag of its reading.                     *)

\* the positions of the katakana readings in a kana list
katakanaPositions(kana) ==
    {i \in 1..Len(kana) :
        kana[i].text # <<>> /\ \A c \in Range(kana[i].text) : c \in KatakanaClass}

C24_EntryToConversions ==
    call.op = "entryToConversions" =>
        LET kana == call.input[1].kana
            kat == katakanaPositions(kana)
        IN  /\ Len(records) = Cardinality(kat)
            /\ \E pos \in [1..Len(records) -> kat] :
                  /\ \A j, k \in 1..Len(records) :
                        j < k =>
                           \/ kana[pos[j]].common /\ ~kana[pos[k]].common
                           \/ kana[pos[j]].common = kana[pos[k]].common /\ pos[j] < pos[k]
                  /\ \A j \in 1..Len(records) :
                        /\ records[j].katakana = kana[pos[j]].text
                        /\ records[j].common = kana[pos[j]].common

\* three readings: a katakana one that is not common, a hiragana one, and a common
\* katakana one, which comes first in the result
C24_Witness ==
    /\ call.op = "entryToConversions"
    /\ call.input[1].kana = <<Kana(k_bia, FALSE), Kana(h_room, TRUE), Kana(k_beer, TRUE)>>
    /\ Len(records) = 2
    /\ records[1].katakana = k_beer /\ records[1].common
    /\ records[2].katakana = k_bia /\ ~records[2].common

----------------------------------------------------------------------------
(* C25: the description tier is dominated. For every dictionary whose      *)
(* glosses contain no '[' or ']' and no '(' inside the parenthesized       *)
(* segment, every token indexed for an entry in the description tier is    *)
(* also indexed for that entry in the exact or the compound tier, and      *)
(* findScoredMatches(q, 'broad') returns the same entries with the same    *)
(* scores in the same order as findScoredMatches(q, 'normal').             *)

\* the glosses of the dictionary file hold no bracket, and the parenthesized segment
\* the index builder reads holds no opening parenthesis
plainGlosses ==
    \A e \in Range(corpus) :
        \A g \in Range(allGlosses(e)) :
            LET text == trim(toLowerCase(g.text))
            IN  /\ 91 \notin Range(text) /\ 93 \notin Range(text)
                /\ 40 \notin Range(descriptionMatch(text).group)

\* a candidate list as entries and scores
entriesAndScores(results) == [i \in 1..Len(results) |-> <<results[i].entry, results[i].score>>]

----------------------------------------------------------------------------
(* C26: overlapping initialization. When two or more initialize(),         *)
(* convert() or searchSuggestions() calls on one converter are started     *)
(* before the first dictionary load has completed, at most one download is *)
(* started, the index is built at most once, and all callers end up using  *)
(* the same IndexedDictionary instance.                                    *)

C26_SingleLoad ==
    /\ effects.downloads <= 1
    /\ effects.builds <= 1
    /\ \A t, u \in TaskIds :
          (tasks[t].used # 0 /\ tasks[u].used # 0) => tasks[t].used = tasks[u].used

----------------------------------------------------------------------------
(* C27: a failed forced update preserves existing data. When               *)
(* downloadJMDict(true) is called while a dictionary file exists and the   *)
(* download or the extraction fails, the dictionary file keeps its         *)
(* previous contents; and downloadJMDict(false) with an existing file      *)
(* starts no download and leaves the file unchanged.                       *)

C27_FailedUpdateKeeps ==
    \A t \in TaskIds :
        (/\ tasks[t].op = "downloadJMDict"
         /\ tasks[t].pc = "downloaded"
         /\ tasks[t].before.exists) =>
            /\ (tasks[t].force /\ tasks[t].fellBack) => disk.file = tasks[t].before
            /\ ~tasks[t].force =>
                  disk.file = tasks[t].before /\ ~tasks[t].worked /\ effects.downloads = 0

====
